---- MODULE Spec2Model ----
(***************************************************************************)
(* Model of the Helki/HJM client core:                                     *)
(*   - HelkiSocketClient  (lib/HelkiSocketClient.ts)  realtime channel     *)
(*   - HelkiTokenManager  (lib/HelkiTokenManager.ts)  session manager      *)
(*   - HelkiApiClient     (lib/HelkiApiClient.ts)     REST client          *)
(* Execution is single-threaded and cooperative: every action below is one *)
(* run-to-suspension piece of a handler, callback or continuation.         *)
(***************************************************************************)
EXTENDS Integers, Sequences, FiniteSets, TLC

(* ------------------------------------------------------------------ *)
(* Program constants                                                   *)
(* ------------------------------------------------------------------ *)
PING_INTERVAL_MS == 20000
RECONNECT_DELAY_MS == 5000
MAX_RECONNECT_ATTEMPTS == 10
MAX_RECONNECT_DELAY_MS == 60000

(* ------------------------------------------------------------------ *)
(* Bounds of the model                                                 *)
(* ------------------------------------------------------------------ *)
\* transports that exist at the same time (current one plus orphans)
MaxSockets == 2
\* connect() calls suspended on the token fetch at the same time, per origin
MaxPendingConnects == 1

SocketIds == 1..MaxSockets

Min(a, b) == IF a <= b THEN a ELSE b

RECURSIVE Pow2(_)
Pow2(n) == IF n = 0 THEN 1 ELSE 2 * Pow2(n - 1)

(* ================================================================== *)
(* State of HelkiTokenManager and HelkiApiClient (actions further down) *)
(* ================================================================== *)
VARIABLES
  accessToken,        \* HelkiTokenManager.accessToken: 0 = null, else a token
  tokenExpiresAt,     \* HelkiTokenManager.tokenExpiresAt (ms)
  credentials,        \* HelkiTokenManager.credentials: 0 = null, else a credential pair
  refreshPromise,     \* HelkiTokenManager.refreshPromise: 0 = null, else the fetch it wraps
  apiRefreshPromise,  \* HelkiApiClient.refreshPromise: 0 = null, else the fetch it wraps
  fetches,            \* the fetchToken() calls made so far, in order
  now,                \* Date.now() (ms)
  tasks               \* the callers: operation, position, what they await, outcome

sessVars == <<accessToken, tokenExpiresAt, credentials, refreshPromise,
              apiRefreshPromise, fetches, now, tasks>>

(* ================================================================== *)
(* HelkiSocketClient                                                   *)
(* ================================================================== *)
VARIABLES
  destroyed,          \* this.destroyed
  socket,             \* this.socket: 0 = null, else a transport id
  socks,              \* the transports created by io(): status, listeners
  pingTimer,          \* this.pingTimer: 0 = null, else an interval id
  pingLive,           \* interval timers live in the event loop
  reconnectTimer,     \* this.reconnectTimer: 0 = null, else a timeout id
  reconnectLive,      \* timeouts pending in the event loop
  reconnectAttempts,  \* this.reconnectAttempts
  connectsCaller,     \* caller-invoked connect() suspended at getToken()
  connectsTimer,      \* connect() of the reconnect callback suspended at getToken()
  sinceOpen,          \* history: reconnect timers scheduled since the last connect ack
  step                \* what the last handler did: events emitted, messages sent, timer scheduled

chanVars == <<destroyed, socket, socks, pingTimer, pingLive, reconnectTimer,
              reconnectLive, reconnectAttempts, connectsCaller, connectsTimer,
              sinceOpen, step>>

(* ================================================================== *)
(* Node status held by the server, and the status calls made           *)
(* ================================================================== *)
VARIABLES
  remote,             \* the raw status of the node as the server stores it
  calls               \* getNodeStatus/setNodeStatus calls completed, in order

statVars == <<remote, calls>>

(* ================================================================== *)
(* HJMRadiatorDevice, and the settings of the app                      *)
(* ================================================================== *)
VARIABLES
  devPhase,           \* how far onInit() has come
  uninited,           \* onUninit() has run
  pollInterval,       \* this.pollInterval: 0 = not set, else the period of the interval
  pollLive,           \* the poll interval is live in the event loop
  socketClient,       \* this.socketClient is not null
  available,          \* getAvailable()
  caps,               \* the capability values Homey stores
  ops,                \* pollStatus() and handleSocketUpdate() invocations in progress
  devStep,            \* what the last step of the device did
  settings,           \* homey.settings 'credentials': 0 = none, else a credential pair
  logins              \* outcome of the login handler, per authenticate() caller

devVars == <<devPhase, uninited, pollInterval, pollLive, socketClient, available,
             caps, ops, devStep, settings, logins>>

\* a slot holding no transport
FreeSock == [status |-> "free", listeners |-> FALSE, bornDestroyed |-> FALSE]

\* the transport as io() returns it, with the four listeners attached
NewSock(d) == [status |-> "connecting", listeners |-> TRUE, bornDestroyed |-> d]

\* the fields of the client as one record, so that the private methods are functions
ChanState(act) ==
  [destroyed |-> destroyed, socket |-> socket, socks |-> socks,
   pingTimer |-> pingTimer, pingLive |-> pingLive,
   reconnectTimer |-> reconnectTimer, reconnectLive |-> reconnectLive,
   reconnectAttempts |-> reconnectAttempts, sinceOpen |-> sinceOpen,
   act |-> act, was |-> "", emitted |-> <<>>, sent |-> <<>>,
   scheduled |-> FALSE, delay |-> 0, threw |-> FALSE, sock |-> 0, origin |-> ""]

Commit(c) ==
  /\ destroyed' = c.destroyed
  /\ socket' = c.socket
  /\ socks' = c.socks
  /\ pingTimer' = c.pingTimer
  /\ pingLive' = c.pingLive
  /\ reconnectTimer' = c.reconnectTimer
  /\ reconnectLive' = c.reconnectLive
  /\ reconnectAttempts' = c.reconnectAttempts
  /\ sinceOpen' = c.sinceOpen
  /\ step' = [act |-> c.act, was |-> c.was, emitted |-> c.emitted, sent |-> c.sent,
              scheduled |-> c.scheduled, delay |-> c.delay, threw |-> c.threw,
              sock |-> c.sock, origin |-> c.origin]

\* setInterval / setTimeout return a handle not in use
FreshTimer(live) == CHOOSE i \in 1..(Cardinality(live) + 1) : i \notin live

emit(c, e) == [c EXCEPT !.emitted = Append(@, e)]

stopPing(c) ==
  IF c.pingTimer # 0
  THEN [c EXCEPT !.pingLive = @ \ {c.pingTimer}, !.pingTimer = 0]
  ELSE c

startPing(c) ==
  LET d == stopPing(c)
      t == FreshTimer(d.pingLive)
  IN [d EXCEPT !.pingTimer = t, !.pingLive = @ \cup {t}]

clearReconnectTimer(c) ==
  IF c.reconnectTimer # 0
  THEN [c EXCEPT !.reconnectLive = @ \ {c.reconnectTimer}, !.reconnectTimer = 0]
  ELSE c

\* backoff without the cap (as before the fix of BUG-6)
backoffDelay_Uncapped(attempts) == RECONNECT_DELAY_MS * Pow2(attempts)

backoffDelay(attempts) ==
  Min(RECONNECT_DELAY_MS * Pow2(attempts), MAX_RECONNECT_DELAY_MS)

\* scheduleReconnect without the destroyed check
scheduleReconnect_NoDestroyedCheck(c) ==
  IF c.reconnectAttempts >= MAX_RECONNECT_ATTEMPTS
  THEN emit(c, "max_reconnect_reached")
  ELSE LET d == clearReconnectTimer(c)
           t == FreshTimer(d.reconnectLive)
       IN [d EXCEPT !.delay = backoffDelay(d.reconnectAttempts),
                    !.scheduled = TRUE,
                    !.reconnectAttempts = @ + 1,
                    !.sinceOpen = @ + 1,
                    !.reconnectTimer = t,
                    !.reconnectLive = @ \cup {t}]

\* scheduleReconnect comparing with > instead of >=
scheduleReconnect_OffByOne(c) ==
  IF c.destroyed THEN c
  ELSE IF c.reconnectAttempts > MAX_RECONNECT_ATTEMPTS
       THEN emit(c, "max_reconnect_reached")
       ELSE LET d == clearReconnectTimer(c)
                t == FreshTimer(d.reconnectLive)
            IN [d EXCEPT !.delay = backoffDelay(d.reconnectAttempts),
                         !.scheduled = TRUE,
                         !.reconnectAttempts = @ + 1,
                         !.sinceOpen = @ + 1,
                         !.reconnectTimer = t,
                         !.reconnectLive = @ \cup {t}]

\* scheduleReconnect that does not cancel the pending timer first
scheduleReconnect_NoClear(c) ==
  IF c.destroyed THEN c
  ELSE IF c.reconnectAttempts >= MAX_RECONNECT_ATTEMPTS
       THEN emit(c, "max_reconnect_reached")
       ELSE LET t == FreshTimer(c.reconnectLive)
            IN [c EXCEPT !.delay = backoffDelay(c.reconnectAttempts),
                         !.scheduled = TRUE,
                         !.reconnectAttempts = @ + 1,
                         !.sinceOpen = @ + 1,
                         !.reconnectTimer = t,
                         !.reconnectLive = @ \cup {t}]

\* scheduleReconnect that does not count the attempt
scheduleReconnect_NoIncrement(c) ==
  IF c.destroyed THEN c
  ELSE IF c.reconnectAttempts >= MAX_RECONNECT_ATTEMPTS
       THEN emit(c, "max_reconnect_reached")
       ELSE LET d == clearReconnectTimer(c)
                t == FreshTimer(d.reconnectLive)
            IN [d EXCEPT !.delay = backoffDelay(d.reconnectAttempts),
                         !.scheduled = TRUE,
                         !.reconnectTimer = t,
                         !.reconnectLive = @ \cup {t}]

scheduleReconnect(c) ==
  IF c.destroyed THEN c
  ELSE IF c.reconnectAttempts >= MAX_RECONNECT_ATTEMPTS
       THEN emit(c, "max_reconnect_reached")
       ELSE LET d == clearReconnectTimer(c)
                t == FreshTimer(d.reconnectLive)
            IN [d EXCEPT !.delay = backoffDelay(d.reconnectAttempts),
                         !.scheduled = TRUE,
                         !.reconnectAttempts = @ + 1,
                         !.sinceOpen = @ + 1,
                         !.reconnectTimer = t,
                         !.reconnectLive = @ \cup {t}]

\* a teardown that forgets the transport without detaching its listeners
closeSocket_KeepListeners(c) == [c EXCEPT !.socket = 0]

\* if (this.socket) { removeAllListeners(); disconnect(); this.socket = null }
closeSocket(c) ==
  IF c.socket # 0
  THEN [c EXCEPT !.socks[c.socket] = FreeSock, !.socket = 0]
  ELSE c

\* a slot for the transport io() creates: one holding no transport, or a
\* transport that is closed and no longer referenced by this.socket
Reusable(s) == socks[s].status \in {"free", "closed"} /\ s # socket


(* ---------------- operations, handlers and callbacks ---------------- *)

\* async connect(): up to the await of tokenManager.getToken()
connect ==
  /\ destroyed \/ connectsCaller < MaxPendingConnects
  /\ connectsCaller' = IF destroyed THEN connectsCaller ELSE connectsCaller + 1
  /\ Commit(ChanState("connect"))
  /\ UNCHANGED <<connectsTimer, sessVars, statVars, devVars>>

\* the part of connect() after the await, for a token fetch that resolved
openSocket(c) ==
  LET s == CHOOSE x \in SocketIds :
             /\ Reusable(x)
             /\ \A y \in SocketIds : Reusable(y) => x <= y
  IN [c EXCEPT !.socks[s] = NewSock(c.destroyed), !.socket = s]

\* connect() that catches a rejected getToken() itself, whoever called it,
\* emits error and schedules a reconnection
connectResume_AlwaysReschedules(origin, ok) ==
  /\ origin = "caller" => connectsCaller > 0
  /\ origin = "timer" => connectsTimer > 0
  /\ ok => \E s \in SocketIds : Reusable(s)
  /\ connectsCaller' = IF origin = "caller" THEN connectsCaller - 1 ELSE connectsCaller
  /\ connectsTimer' = IF origin = "timer" THEN connectsTimer - 1 ELSE connectsTimer
  /\ LET c == [ChanState("connectResume") EXCEPT !.origin = origin] IN
       IF ok THEN Commit(openSocket(c))
       ELSE Commit(scheduleReconnect(emit(c, "error")))
  /\ UNCHANGED <<sessVars, statVars, devVars>>

\* connect() resumes: getToken() resolved (ok) or rejected
connectResume(origin, ok) ==
  /\ origin = "caller" => connectsCaller > 0
  /\ origin = "timer" => connectsTimer > 0
  /\ ok => \E s \in SocketIds : Reusable(s)
  /\ connectsCaller' = IF origin = "caller" THEN connectsCaller - 1 ELSE connectsCaller
  /\ connectsTimer' = IF origin = "timer" THEN connectsTimer - 1 ELSE connectsTimer
  /\ LET c == [ChanState("connectResume") EXCEPT !.origin = origin] IN
       IF ok THEN Commit(openSocket(c))
       ELSE IF origin = "caller"
            \* the promise connect() returned rejects; nothing catches it here
            THEN Commit([c EXCEPT !.threw = TRUE])
            \* catch block of the reconnect callback
            ELSE Commit(scheduleReconnect(emit(c, "error")))
  /\ UNCHANGED <<sessVars, statVars, devVars>>

\* socket.on('connect')
onConnect(s) ==
  /\ socks[s].status = "connecting" /\ socks[s].listeners
  /\ LET c0 == [ChanState("onConnect") EXCEPT !.sock = s,
                                              !.socks[s].status = "connected",
                                              !.reconnectAttempts = 0,
                                              !.sinceOpen = 0]
         c1 == startPing(c0)
     IN IF c1.socket = 0
        \* this.socket!.emit on null throws inside the listener
        THEN Commit([c1 EXCEPT !.threw = TRUE])
        ELSE Commit(emit([c1 EXCEPT !.sent = Append(@, "dev_data")], "connected"))
  /\ UNCHANGED <<connectsCaller, connectsTimer, sessVars, statVars, devVars>>

\* socket.on('update')
onUpdate(s) ==
  /\ socks[s].status = "connected" /\ socks[s].listeners
  /\ Commit(emit([ChanState("onUpdate") EXCEPT !.sock = s], "update"))
  /\ UNCHANGED <<connectsCaller, connectsTimer, sessVars, statVars, devVars>>

\* socket.on('disconnect')
onDisconnect(s) ==
  /\ socks[s].status \in {"connected", "errored"} /\ socks[s].listeners
  /\ LET c0 == [ChanState("onDisconnect") EXCEPT !.sock = s,
                                                 !.socks[s].status = "closed",
                                                 !.was = socks[s].status]
     IN Commit(scheduleReconnect(emit(stopPing(c0), "disconnected")))
  /\ UNCHANGED <<connectsCaller, connectsTimer, sessVars, statVars, devVars>>

\* socket.on('connect_error')
onConnectError(s) ==
  /\ socks[s].status = "connecting" /\ socks[s].listeners
  /\ LET c0 == [ChanState("onConnectError") EXCEPT !.sock = s,
                                                   !.socks[s].status = "errored"]
     IN Commit(scheduleReconnect(emit(c0, "error")))
  /\ UNCHANGED <<connectsCaller, connectsTimer, sessVars, statVars, devVars>>

\* disconnect()
disconnect ==
  /\ LET c0 == [ChanState("disconnect") EXCEPT !.destroyed = TRUE]
     IN Commit(closeSocket(clearReconnectTimer(stopPing(c0))))
  /\ UNCHANGED <<connectsCaller, connectsTimer, sessVars, statVars, devVars>>

\* the setInterval callback of startPing
pingFire(t) ==
  /\ t \in pingLive
  /\ LET c == ChanState("pingFire") IN
       IF c.socket # 0 /\ c.socks[c.socket].status = "connected"
       THEN Commit([c EXCEPT !.sent = Append(@, "ping")])
       ELSE Commit(c)
  /\ UNCHANGED <<connectsCaller, connectsTimer, sessVars, statVars, devVars>>

\* a timer callback that tears the transport down and does not connect again
reconnectFire_NoConnect(t) ==
  /\ t \in reconnectLive
  /\ connectsTimer < MaxPendingConnects
  /\ LET c0 == [ChanState("reconnectFire") EXCEPT !.reconnectLive = @ \ {t},
                                                  !.sock = socket]
     IN Commit(closeSocket(c0))
  /\ UNCHANGED <<connectsCaller, connectsTimer, sessVars, statVars, devVars>>

\* the setTimeout callback of scheduleReconnect, up to the await inside connect()
reconnectFire(t) ==
  /\ t \in reconnectLive
  /\ connectsTimer < MaxPendingConnects
  /\ LET c0 == [ChanState("reconnectFire") EXCEPT !.reconnectLive = @ \ {t},
                                                  !.sock = socket]
     IN Commit(closeSocket(c0))
  /\ connectsTimer' = IF destroyed THEN connectsTimer ELSE connectsTimer + 1
  /\ UNCHANGED <<connectsCaller, sessVars, statVars, devVars>>

InitChannel ==
  /\ destroyed = FALSE
  /\ socket = 0
  /\ socks = [s \in SocketIds |-> FreeSock]
  /\ pingTimer = 0
  /\ pingLive = {}
  /\ reconnectTimer = 0
  /\ reconnectLive = {}
  /\ reconnectAttempts = 0
  /\ connectsCaller = 0
  /\ connectsTimer = 0
  /\ sinceOpen = 0
  /\ step = [act |-> "init", was |-> "", emitted |-> <<>>, sent |-> <<>>,
             scheduled |-> FALSE, delay |-> 0, threw |-> FALSE, sock |-> 0, origin |-> ""]

NextChannel ==
  \/ connect
  \/ \E origin \in {"caller", "timer"}, ok \in BOOLEAN : connectResume(origin, ok)
  \/ \E s \in SocketIds : onConnect(s)
  \/ \E s \in SocketIds : onUpdate(s)
  \/ \E s \in SocketIds : onDisconnect(s)
  \/ \E s \in SocketIds : onConnectError(s)
  \/ disconnect
  \/ \E t \in pingLive : pingFire(t)
  \/ \E t \in reconnectLive : reconnectFire(t)

(* ================================================================== *)
(* HelkiTokenManager and HelkiApiClient                                *)
(* ================================================================== *)
TOKEN_REFRESH_BUFFER_MS == 5 * 60 * 1000

\* callers (async operations) in one behaviour
NumTasks == 3
\* of which REST operations and authenticate() calls through the REST client
MaxApiTasks == 3
\* fetchToken() calls in one behaviour
MaxFetches == 3
\* times one REST call may send its request before the model stops following it
MaxSends == 3
\* clock ticks in one behaviour
MaxTicks == 1
\* credential pairs a caller may supply
MaxCreds == 2

\* one tick of the clock: the safety buffer
TickMs == TOKEN_REFRESH_BUFFER_MS
\* expires_in values (seconds) the token endpoint may report
ExpiresInChoices == {0, 600}

\* expires_in of the tokens issued while the REST client is exercised
ApiExpiresIn == 600

TaskIds == 1..NumTasks
ApiTaskIds == 1..MaxApiTasks
CredIds == 1..MaxCreds

NoResult == [kind |-> "none", token |-> 0, err |-> "", from |-> 0]
ResToken(f) == [kind |-> "token", token |-> f, err |-> "", from |-> f]
ResError(e, f) == [kind |-> "err", token |-> 0, err |-> e, from |-> f]
ResData == [kind |-> "data", token |-> 0, err |-> "", from |-> 0]

\* a caller slot with no operation in progress
IdleTask ==
  [op |-> "none", pc |-> "idle", awaiting |-> 0, joined |-> 0, issued |-> FALSE,
   token |-> 0, sends |-> 0, status |-> "", result |-> NoResult]

\* the fields of HelkiTokenManager and HelkiApiClient as one record
SessState ==
  [accessToken |-> accessToken, tokenExpiresAt |-> tokenExpiresAt,
   credentials |-> credentials, refreshPromise |-> refreshPromise,
   apiRefreshPromise |-> apiRefreshPromise, fetches |-> fetches]

CommitSess(m) ==
  /\ accessToken' = m.accessToken
  /\ tokenExpiresAt' = m.tokenExpiresAt
  /\ credentials' = m.credentials
  /\ refreshPromise' = m.refreshPromise
  /\ apiRefreshPromise' = m.apiRefreshPromise
  /\ fetches' = m.fetches

\* invalidate() that also drops the in-flight refresh
invalidate_AlsoClearsRefresh(m) ==
  [m EXCEPT !.accessToken = 0, !.tokenExpiresAt = 0, !.refreshPromise = 0]

\* invalidate() that clears the token and leaves its expiry behind
invalidate_KeepsExpiry(m) == [m EXCEPT !.accessToken = 0]

\* invalidate()
invalidate(m) == [m EXCEPT !.accessToken = 0, !.tokenExpiresAt = 0]

\* fetchToken() without the check for stored credentials
fetchToken_NoCredCheck(m, by) ==
  [m EXCEPT !.fetches = Append(@, [cred |-> m.credentials,
                                   net |-> TRUE,
                                   state |-> "pending",
                                   by |-> by,
                                   err |-> "",
                                   at |-> 0,
                                   expiresIn |-> 0,
                                   cleared |-> FALSE])]

\* fetchToken() up to its await: without credentials it throws before any
\* request (net = FALSE), otherwise it posts to the token endpoint.
\* The promise it returns is identified by its index in fetches.
fetchToken(m, by) ==
  [m EXCEPT !.fetches = Append(@, [cred |-> m.credentials,
                                   net |-> m.credentials # 0,
                                   state |-> "pending",
                                   by |-> by,
                                   err |-> "",
                                   at |-> 0,
                                   expiresIn |-> 0,
                                   cleared |-> FALSE])]

\* refresh() that starts a fetch on every call
refresh_NoDedup(m) ==
  [fetchToken(m, "refresh") EXCEPT !.refreshPromise = Len(m.fetches) + 1]

\* refresh(): the promise it returns is the refreshPromise of the result
refresh(m) ==
  IF m.refreshPromise # 0
  THEN m
  ELSE [fetchToken(m, "refresh") EXCEPT !.refreshPromise = Len(m.fetches) + 1]

\* a test of getToken() that looks at the token only
tokenValid_IgnoresExpiry(m, t) == m.accessToken # 0

\* the test of getToken() and isAuthenticated()
tokenValid(m, t) == m.accessToken # 0 /\ t < m.tokenExpiresAt

\* isAuthenticated() as it was before the fix of BUG-2
isAuthenticated_TokenOnly(m, t) == m.accessToken # 0

\* isAuthenticated() at time t
isAuthenticated(m, t) == m.accessToken # 0 /\ t < m.tokenExpiresAt

\* 401 branch of an interceptor in which every 401 fetches a token of its own
intercept401_NoShare(m) ==
  [fetchToken(invalidate(m), "refresh") EXCEPT
     !.apiRefreshPromise = Len(m.fetches) + 1]

\* 401 branch of the response interceptor up to its await: the promise
\* awaited is the apiRefreshPromise of the result
intercept401(m) ==
  IF m.apiRefreshPromise = 0
  THEN LET r == refresh(invalidate(m))
       IN [r EXCEPT !.apiRefreshPromise = r.refreshPromise]
  ELSE m

\* the error fetchToken() throws for a failed token request
tokenError(outcome) ==
  CASE outcome = "nocreds" -> "NoCredentials"
    [] outcome = "401" -> "InvalidCredentials"
    [] outcome = "unreachable" -> "Unreachable"
    [] OTHER -> "Raw"

\* translateError() without the case for status 429
translateError_No429(status) ==
  CASE status = "401" -> "InvalidCredentials"
    [] status = "unreachable" -> "Unreachable"
    [] OTHER -> "Unexpected"

\* translateError(): the error of a failed REST response
translateError(status) ==
  CASE status = "401" -> "InvalidCredentials"
    [] status = "429" -> "RateLimited"
    [] status = "unreachable" -> "Unreachable"
    [] OTHER -> "Unexpected"

RestStatuses == {"200", "401", "429", "unreachable", "other"}
TokenOutcomes == {"ok", "401", "unreachable", "other"}

\* a fetchToken() that threw is pending only until the microtasks have run:
\* no network response and no timer is handled before
NoMicrotaskPending ==
  \A f \in 1..Len(fetches) : fetches[f].state = "pending" => fetches[f].net

\* credential pairs are taken in the order of their first use
FreshCred(c) ==
  \A d \in CredIds : d < c => \E f \in 1..Len(fetches) : fetches[f].cred = d

\* callers take the lowest free slot
FreeSlot(t) ==
  /\ tasks[t].pc = "idle"
  /\ \A u \in TaskIds : u < t => tasks[u].pc # "idle"

\* authenticate(username, password)
authenticate(t, cred) ==
  /\ FreeSlot(t)
  /\ Len(fetches) < MaxFetches
  /\ LET m == fetchToken([SessState EXCEPT !.credentials = cred], "authenticate")
     IN /\ CommitSess(m)
        /\ tasks' = [tasks EXCEPT ![t] =
             [IdleTask EXCEPT !.op = "authenticate", !.pc = "awaitFetch",
                              !.awaiting = Len(m.fetches), !.issued = TRUE]]
  /\ UNCHANGED <<now, chanVars, statVars, devVars>>

\* a caller invokes refresh()
callRefresh(t) ==
  /\ FreeSlot(t)
  /\ LET m == refresh(SessState)
     IN /\ Len(m.fetches) <= MaxFetches
        /\ CommitSess(m)
        /\ tasks' = [tasks EXCEPT ![t] =
             [IdleTask EXCEPT !.op = "refresh", !.pc = "awaitFetch",
                              !.awaiting = m.refreshPromise,
                              !.joined = refreshPromise,
                              !.issued = (Len(m.fetches) # Len(fetches))]]
  /\ UNCHANGED <<now, chanVars, statVars, devVars>>

\* a caller invokes getToken()
callGetToken(t) ==
  /\ FreeSlot(t)
  /\ IF tokenValid(SessState, now)
     THEN /\ tasks' = [tasks EXCEPT ![t] =
               [IdleTask EXCEPT !.op = "getToken", !.pc = "done",
                                !.result = ResToken(accessToken)]]
          /\ CommitSess(SessState)
     ELSE LET m == refresh(SessState)
          IN /\ Len(m.fetches) <= MaxFetches
             /\ CommitSess(m)
             /\ tasks' = [tasks EXCEPT ![t] =
                  [IdleTask EXCEPT !.op = "getToken", !.pc = "awaitFetch",
                                   !.awaiting = m.refreshPromise,
                                   !.joined = refreshPromise,
                                   !.issued = (Len(m.fetches) # Len(fetches))]]
  /\ UNCHANGED <<now, chanVars, statVars, devVars>>

\* a caller invokes invalidate()
callInvalidate ==
  /\ accessToken # 0
  /\ CommitSess(invalidate(SessState))
  /\ UNCHANGED <<now, tasks, chanVars, statVars, devVars>>

\* a REST operation (getDevices, getNodes, ...): authHeaders() and, when the
\* token is cached, the request itself
restCall(t) ==
  /\ FreeSlot(t)
  /\ IF tokenValid(SessState, now)
     THEN /\ tasks' = [tasks EXCEPT ![t] =
               [IdleTask EXCEPT !.op = "rest", !.pc = "sent",
                                !.token = accessToken, !.sends = 1]]
          /\ CommitSess(SessState)
     ELSE LET m == refresh(SessState)
          IN /\ Len(m.fetches) <= MaxFetches
             /\ CommitSess(m)
             /\ tasks' = [tasks EXCEPT ![t] =
                  [IdleTask EXCEPT !.op = "rest", !.pc = "awaitHeaders",
                                   !.awaiting = m.refreshPromise,
                                   !.joined = refreshPromise,
                                   !.issued = (Len(m.fetches) # Len(fetches))]]
  /\ UNCHANGED <<now, chanVars, statVars, devVars>>

\* the response to a REST request arrives: the response interceptor
restResponse(t, status) ==
  /\ tasks[t].pc = "sent"
  /\ NoMicrotaskPending
  /\ IF status = "200"
     THEN /\ tasks' = [tasks EXCEPT ![t].pc = "done", ![t].status = status,
                                    ![t].result = ResData]
          /\ CommitSess(SessState)
     ELSE IF status = "401"
     THEN LET m == intercept401(SessState)
          IN /\ tasks[t].sends < MaxSends
             /\ Len(m.fetches) <= MaxFetches
             /\ CommitSess(m)
             /\ tasks' = [tasks EXCEPT ![t].pc = "await401", ![t].status = status,
                                       ![t].awaiting = m.apiRefreshPromise,
                                       ![t].joined = apiRefreshPromise,
                                       ![t].issued = (Len(m.fetches) # Len(fetches))]
     ELSE /\ tasks' = [tasks EXCEPT ![t].pc = "done", ![t].status = status,
                                    ![t].result = ResError(translateError(status), 0)]
          /\ CommitSess(SessState)
  /\ UNCHANGED <<now, chanVars, statVars, devVars>>

\* a resumption whose replay keeps the Authorization header it was sent with
resume_StaleToken(tk, f, outcome) ==
  IF tk.awaiting # f \/ tk.pc \notin {"awaitFetch", "awaitHeaders", "await401"}
  THEN tk
  ELSE IF outcome = "ok"
       THEN IF tk.pc = "awaitFetch"
            THEN [tk EXCEPT !.pc = "done", !.result = ResToken(f)]
            ELSE IF tk.pc = "await401"
            THEN [tk EXCEPT !.pc = "sent", !.sends = @ + 1]
            ELSE [tk EXCEPT !.pc = "sent", !.token = f, !.sends = @ + 1]
       ELSE [tk EXCEPT !.pc = "done", !.result = ResError(tokenError(outcome), f)]

\* a resumption that replays the request even though the refresh failed
resume_ReplayOnFailure(tk, f, outcome) ==
  IF tk.awaiting # f \/ tk.pc \notin {"awaitFetch", "awaitHeaders", "await401"}
  THEN tk
  ELSE IF outcome = "ok"
       THEN IF tk.pc = "awaitFetch"
            THEN [tk EXCEPT !.pc = "done", !.result = ResToken(f)]
            ELSE [tk EXCEPT !.pc = "sent", !.token = f, !.sends = @ + 1]
       ELSE IF tk.pc = "await401"
       THEN [tk EXCEPT !.pc = "sent", !.sends = @ + 1]
       ELSE [tk EXCEPT !.pc = "done", !.result = ResError(tokenError(outcome), f)]

\* a caller suspended on the promise of fetch f resumes with its outcome
resume(tk, f, outcome) ==
  IF tk.awaiting # f \/ tk.pc \notin {"awaitFetch", "awaitHeaders", "await401"}
  THEN tk
  ELSE IF outcome = "ok"
       THEN IF tk.pc = "awaitFetch"
            THEN [tk EXCEPT !.pc = "done", !.result = ResToken(f)]
            \* the request (or its replay) goes out with the token just obtained
            ELSE [tk EXCEPT !.pc = "sent", !.token = f, !.sends = @ + 1]
       ELSE [tk EXCEPT !.pc = "done", !.result = ResError(tokenError(outcome), f)]

\* settlement in which only a successful request clears the in-flight markers
settleFetch_ThenNotFinally(m, f, outcome, e, t) ==
  LET m1 == IF outcome = "ok"
            THEN [m EXCEPT !.accessToken = f,
                           !.tokenExpiresAt = t + e * 1000 - TOKEN_REFRESH_BUFFER_MS,
                           !.fetches[f].at = t,
                           !.fetches[f].expiresIn = e,
                           !.refreshPromise = IF @ = f THEN 0 ELSE @,
                           !.apiRefreshPromise = IF @ = f THEN 0 ELSE @]
            ELSE IF outcome = "nocreds" THEN m ELSE invalidate(m)
  IN [m1 EXCEPT !.fetches[f].state = IF outcome = "ok" THEN "ok" ELSE "fail",
                !.fetches[f].err = IF outcome = "ok" THEN "" ELSE tokenError(outcome),
                !.fetches[f].cleared = outcome \notin {"ok", "nocreds"} /\ tokenValid(m, t)]

\* settlement whose catch block leaves the cached token in place
settleFetch_KeepsTokenOnFailure(m, f, outcome, e, t) ==
  LET m1 == IF outcome = "ok"
            THEN [m EXCEPT !.accessToken = f,
                           !.tokenExpiresAt = t + e * 1000 - TOKEN_REFRESH_BUFFER_MS,
                           !.fetches[f].at = t,
                           !.fetches[f].expiresIn = e]
            ELSE m
  IN [m1 EXCEPT !.fetches[f].state = IF outcome = "ok" THEN "ok" ELSE "fail",
                !.fetches[f].err = IF outcome = "ok" THEN "" ELSE tokenError(outcome),
                !.fetches[f].cleared = outcome \notin {"ok", "nocreds"} /\ tokenValid(m, t),
                !.refreshPromise = IF @ = f THEN 0 ELSE @,
                !.apiRefreshPromise = IF @ = f THEN 0 ELSE @]

\* settlement whose catch block also forgets the stored credentials
settleFetch_RollsBackCredentials(m, f, outcome, e, t) ==
  LET m1 == IF outcome = "ok"
            THEN [m EXCEPT !.accessToken = f,
                           !.tokenExpiresAt = t + e * 1000 - TOKEN_REFRESH_BUFFER_MS,
                           !.fetches[f].at = t,
                           !.fetches[f].expiresIn = e]
            ELSE IF outcome = "nocreds" THEN m
            ELSE [invalidate(m) EXCEPT !.credentials = 0]
  IN [m1 EXCEPT !.fetches[f].state = IF outcome = "ok" THEN "ok" ELSE "fail",
                !.fetches[f].err = IF outcome = "ok" THEN "" ELSE tokenError(outcome),
                !.fetches[f].cleared = outcome \notin {"ok", "nocreds"} /\ tokenValid(m, t),
                !.refreshPromise = IF @ = f THEN 0 ELSE @,
                !.apiRefreshPromise = IF @ = f THEN 0 ELSE @]

\* fetchToken() after its await, at time t, and the finally callbacks of
\* refresh() and of the interceptor: a successful request stores the token
\* and its expiry, a failed one clears both (the throw for missing
\* credentials is outside the try block and clears nothing); the in-flight
\* markers that wrap this fetch are cleared either way
settleFetch(m, f, outcome, e, t) ==
  LET m1 == IF outcome = "ok"
            THEN [m EXCEPT !.accessToken = f,
                           !.tokenExpiresAt = t + e * 1000 - TOKEN_REFRESH_BUFFER_MS,
                           !.fetches[f].at = t,
                           !.fetches[f].expiresIn = e]
            ELSE IF outcome = "nocreds" THEN m ELSE invalidate(m)
  IN [m1 EXCEPT !.fetches[f].state = IF outcome = "ok" THEN "ok" ELSE "fail",
                !.fetches[f].err = IF outcome = "ok" THEN "" ELSE tokenError(outcome),
                !.fetches[f].cleared = outcome \notin {"ok", "nocreds"} /\ tokenValid(m, t),
                !.refreshPromise = IF @ = f THEN 0 ELSE @,
                !.apiRefreshPromise = IF @ = f THEN 0 ELSE @]

\* fetchToken() after its await: the token request settles (or, without
\* credentials, the rejection is delivered); the finally callbacks clear the
\* markers and every caller waiting on the promise resumes
fetchSettle(f, outcome, e) ==
  /\ f \in 1..Len(fetches)
  /\ fetches[f].state = "pending"
  /\ IF fetches[f].net
     THEN outcome \in TokenOutcomes /\ NoMicrotaskPending
     ELSE outcome = "nocreds"
  /\ e \in ExpiresInChoices
  /\ outcome # "ok" => \A x \in ExpiresInChoices : e <= x
  /\ CommitSess(settleFetch(SessState, f, outcome, e, now))
  /\ tasks' = [t \in TaskIds |-> resume(tasks[t], f, outcome)]
  /\ UNCHANGED <<now, chanVars, statVars, devVars>>

\* time passes
tick ==
  /\ now < MaxTicks * TickMs
  /\ NoMicrotaskPending
  /\ now' = now + TickMs
  /\ UNCHANGED <<accessToken, tokenExpiresAt, credentials, refreshPromise,
                 apiRefreshPromise, fetches, tasks, chanVars, statVars, devVars>>

InitSession ==
  /\ accessToken = 0
  /\ tokenExpiresAt = 0
  /\ credentials = 0
  /\ refreshPromise = 0
  /\ apiRefreshPromise = 0
  /\ fetches = <<>>
  /\ now = 0
  /\ tasks = [t \in TaskIds |-> IdleTask]

\* callers of the session manager itself
NextSession ==
  \/ \E t \in TaskIds, cred \in CredIds : FreshCred(cred) /\ authenticate(t, cred)
  \/ \E t \in TaskIds : callRefresh(t)
  \/ \E t \in TaskIds : callGetToken(t)
  \/ callInvalidate
  \/ \E f \in 1..MaxFetches, outcome \in TokenOutcomes \cup {"nocreds"},
        e \in ExpiresInChoices : fetchSettle(f, outcome, e)
  \/ (accessToken # 0 /\ tick)

\* callers of the REST client: authenticate and REST operations; the clock
\* stands still and the tokens issued outlive the run, so a REST operation
\* finds no usable token only after an invalidation or a failed request
NextApi ==
  \/ \E t \in ApiTaskIds : authenticate(t, 1)
  \/ \E t \in ApiTaskIds : restCall(t)
  \/ \E t \in ApiTaskIds, status \in RestStatuses : restResponse(t, status)
  \/ \E f \in 1..MaxFetches, outcome \in TokenOutcomes \cup {"nocreds"},
        e \in ExpiresInChoices :
          (outcome = "ok" => e = ApiExpiresIn) /\ fetchSettle(f, outcome, e)

(* ================================================================== *)
(* Node status: getNodeStatus, setNodeStatus, parseNodeStatus          *)
(* ================================================================== *)
\* getNodeStatus() calls in a run
MaxGets == 2
\* setNodeStatus() calls in a run
MaxSets == 1

\* JavaScript values. A number is held in hundredths of a unit (2250 is
\* 22.5); NaN is the number parseFloat returns for text that is not numeric;
\* a string is its sequence of characters.
Undefined == [type |-> "undefined", n |-> 0, chars |-> <<>>]
Num(h) == [type |-> "number", n |-> h, chars |-> <<>>]
NaN == [type |-> "NaN", n |-> 0, chars |-> <<>>]
Str(cs) == [type |-> "string", n |-> 0, chars |-> cs]
Bool(b) == [type |-> "boolean", n |-> IF b THEN 1 ELSE 0, chars |-> <<>>]

DigitChars == <<"0", "1", "2", "3", "4", "5", "6", "7", "8", "9">>
Digit(d) == DigitChars[d + 1]
IsDigit(c) == \E d \in 0..9 : Digit(d) = c
DigitVal(c) == CHOOSE d \in 0..9 : Digit(d) = c

\* decimal digits of a non-negative integer
RECURSIVE Digits(_)
Digits(k) == IF k < 10 THEN <<Digit(k)>> ELSE Append(Digits(k \div 10), Digit(k % 10))

\* String(x) of a non-negative number: the shortest decimal that reads
\* back as x, without a fractional part for a whole number
String(v) ==
  IF v.type = "NaN" THEN <<"N", "a", "N">>
  ELSE LET frac == v.n % 100
       IN Digits(v.n \div 100) \o
          (IF frac = 0 THEN <<>>
           ELSE IF frac % 10 = 0 THEN <<".", Digit(frac \div 10)>>
           ELSE <<".", Digit(frac \div 10), Digit(frac % 10)>>)

\* number of consecutive digits of cs from position i on
RECURSIVE DigitRun(_, _)
DigitRun(cs, i) ==
  IF i <= Len(cs) /\ IsDigit(cs[i]) THEN 1 + DigitRun(cs, i + 1) ELSE 0

\* value of the k digits of cs that start at position i
RECURSIVE DigitsValue(_, _, _)
DigitsValue(cs, i, k) ==
  IF k = 0 THEN 0 ELSE DigitsValue(cs, i, k - 1) * 10 + DigitVal(cs[i + k - 1])

\* parseFloat(s) of unsigned text: the longest prefix of the form
\* digits [ "." digits ] is read and the rest ignored; NaN when there is no
\* such prefix. Fractional digits beyond the second are below the resolution
\* of Num.
parseFloat(s) ==
  LET cs == s.chars
      w == DigitRun(cs, 1)
      f == IF Len(cs) > w /\ cs[w + 1] = "." THEN DigitRun(cs, w + 2) ELSE 0
      tenths == IF f >= 1 THEN DigitVal(cs[w + 2]) ELSE 0
      hundredths == IF f >= 2 THEN DigitVal(cs[w + 3]) ELSE 0
  IN IF w = 0 /\ f = 0 THEN NaN
     ELSE Num(DigitsValue(cs, 1, w) * 100 + tenths * 10 + hundredths)

\* the fields of HelkiNodeStatus
TempFields == {"stemp", "mtemp"}
StatusFields == TempFields \cup {"mode", "active", "locked", "presence",
                                 "window_open", "boost"}
\* the fields of HelkiRawNodeStatus: those of the parsed status, and the ones
\* the client does not read, of which units is one
RawFields == StatusFields \cup {"units"}

\* the fields of an object that are not undefined
Keys(o) == {k \in DOMAIN o : o[k] # Undefined}

\* parseNodeStatus(raw): every field of the status that is defined in raw is
\* copied, the two temperatures through parseFloat
parseNodeStatus(raw) ==
  [k \in StatusFields |->
     IF raw[k] = Undefined THEN Undefined
     ELSE IF k \in TempFields THEN parseFloat(raw[k])
     ELSE raw[k]]

\* the payload with the two temperatures exchanged
apiStatus_SwapsTemps(status) ==
  [k \in RawFields |->
     IF k = "stemp" /\ status["mtemp"] # Undefined THEN Str(String(status["mtemp"]))
     ELSE IF k = "mtemp" /\ status["stemp"] # Undefined THEN Str(String(status["stemp"]))
     ELSE IF k \in {"mode", "active"} THEN status[k]
     ELSE Undefined]

\* the payload that names the unit whenever a temperature is sent
apiStatus_WithUnits(status) ==
  [k \in RawFields |->
     IF k \in TempFields /\ status[k] # Undefined THEN Str(String(status[k]))
     ELSE IF k \in {"mode", "active"} THEN status[k]
     ELSE IF k = "units" /\ Keys(status) \cap TempFields # {} THEN Str(<<"C">>)
     ELSE Undefined]

\* the payload setNodeStatus(status) builds: stemp and mtemp as String(x),
\* mode and active as they are, each only if defined in status; nothing else
apiStatus(status) ==
  [k \in RawFields |->
     IF k \in TempFields /\ status[k] # Undefined THEN Str(String(status[k]))
     ELSE IF k \in {"mode", "active"} THEN status[k]
     ELSE Undefined]

\* the server stores what it receives: the fields of the payload replace the
\* stored ones, the others stay
store(raw, body) ==
  [k \in RawFields |-> IF body[k] # Undefined THEN body[k] ELSE raw[k]]

NoRawStatus == [k \in RawFields |-> Undefined]

\* the raw statuses a node starts with
RawTempChoices == {Str(<<"2", "3", ".", "0">>), Str(<<"2", "2", ".", "5">>),
                   Str(<<"N", "/", "A">>)}
RawChoices ==
  {[k \in RawFields |->
      CASE k = "stemp" -> st
        [] k = "mtemp" -> mt
        [] k = "mode" -> Str(<<"a", "u", "t", "o">>)
        [] k = "active" -> Bool(TRUE)
        [] k = "locked" -> lk
        [] k = "units" -> Str(<<"C">>)
        [] OTHER -> Undefined] :
     st \in RawTempChoices,
     mt \in {Undefined, Str(<<"1", "9", ".", "2", "5">>)},
     lk \in {Undefined, Bool(FALSE)}}

\* the statuses a caller passes to setNodeStatus
StatusChoices ==
  {[k \in StatusFields |->
      CASE k = "stemp" -> st
        [] k = "mtemp" -> mt
        [] k = "mode" -> md
        [] k = "active" -> ac
        [] k = "locked" -> lk
        [] OTHER -> Undefined] :
     st \in {Undefined, Num(2300), Num(2250)},
     mt \in {Undefined, Num(2300)},
     md \in {Undefined, Str(<<"m", "a", "n", "u", "a", "l">>)},
     ac \in {Undefined, Bool(TRUE)},
     lk \in {Undefined, Bool(TRUE)}}

GetCall(status) == [op |-> "get", status |-> status, body |-> NoRawStatus]
SetCall(status, body) == [op |-> "set", status |-> status, body |-> body]

Count(op) == Cardinality({i \in 1..Len(calls) : calls[i].op = op})

\* the node reports its status to the server before the client's first call
nodeReports(raw) ==
  /\ remote = NoRawStatus /\ calls = <<>>
  /\ remote' = raw
  /\ UNCHANGED <<calls, chanVars, sessVars, devVars>>

\* getNodeStatus(): the stored status, parsed
getNodeStatus ==
  /\ remote # NoRawStatus
  /\ Count("get") < MaxGets
  /\ calls' = Append(calls, GetCall(parseNodeStatus(remote)))
  /\ UNCHANGED <<remote, chanVars, sessVars, devVars>>

\* setNodeStatus(status): the payload is posted and the server stores it
setNodeStatus(status) ==
  /\ remote # NoRawStatus
  /\ Count("set") < MaxSets
  /\ calls' = Append(calls, SetCall(status, apiStatus(status)))
  /\ remote' = store(remote, apiStatus(status))
  /\ UNCHANGED <<chanVars, sessVars, devVars>>

InitStatus == remote = NoRawStatus /\ calls = <<>>

\* callers of the status operations: a caller sets a status of its own
\* choice or one it has fetched
NextStatus ==
  \/ \E raw \in RawChoices : nodeReports(raw)
  \/ getNodeStatus
  \/ \E status \in StatusChoices \cup {calls[i].status : i \in 1..Len(calls)} :
       setNodeStatus(status)

(* ================================================================== *)
(* HJMRadiatorDevice (drivers/radiator/device.ts), the flow cards of   *)
(* HJMApp (app.ts) and the login handler of HJMRadiatorDriver          *)
(* ================================================================== *)
POLL_INTERVAL_MS == 60000

\* pollStatus() and handleSocketUpdate() invocations in progress at a time
MaxOps == 1

OpIds == 1..MaxOps

Null == [type |-> "null", n |-> 0, chars |-> <<>>]

Capabilities == {"measure_temperature", "target_temperature", "hjm_mode"}

\* the status field updateCapabilities() copies into a capability
CapField(cap) ==
  CASE cap = "measure_temperature" -> "stemp"
    [] cap = "target_temperature" -> "mtemp"
    [] cap = "hjm_mode" -> "mode"

\* the fields of a status that updateCapabilities() reads
ReadFields == {CapField(cap) : cap \in Capabilities}

NoStatus == [k \in ReadFields |-> Undefined]

\* a !== b
NotStrictEqual(a, b) == a # b \/ a.type = "NaN"

\* a slot without an invocation
IdleOp == [kind |-> "none", pc |-> "idle", status |-> NoStatus,
           prevTemp |-> Null, prevMode |-> Null]

NoDevStep == [act |-> "none", fired |-> {}, called |-> {}, failed |-> {},
              posted |-> <<>>, threw |-> FALSE]

\* the lowest free slot
FreeOp(o) ==
  /\ ops[o].kind = "none"
  /\ \A p \in OpIds : p < o => ops[p].kind # "none"

\* updateCapabilities(status) after prevTemp and prevMode have been read:
\* each capability whose field is defined is set (the calls in failing
\* reject, which is caught and logged), then each trigger fires whose field
\* is defined and !== the value read before
updateCapabilities(cs, status, prevTemp, prevMode, failing) ==
  [caps |-> [cap \in Capabilities |->
               IF status[CapField(cap)] # Undefined /\ cap \notin failing
               THEN status[CapField(cap)] ELSE cs[cap]],
   fired |->
     {c \in {"temperature_changed"} :
        status["stemp"] # Undefined /\ NotStrictEqual(status["stemp"], prevTemp)}
     \cup
     {c \in {"mode_changed"} :
        status["mode"] # Undefined /\ NotStrictEqual(status["mode"], prevMode)}]

\* the status with the given stemp, mtemp and mode
Status(st, mt, md) ==
  [k \in ReadFields |->
     CASE k = "stemp" -> st
       [] k = "mtemp" -> mt
       [] k = "mode" -> md
       [] OTHER -> Undefined]

Auto == Str(<<"a", "u", "t", "o">>)
Manual == Str(<<"m", "a", "n", "u", "a", "l">>)

\* statuses that polls and socket updates deliver
DevStatusChoices ==
  {Status(Num(2000), Num(2100), Auto),
   Status(Undefined, Undefined, Manual),
   Status(NaN, Undefined, Undefined)}

\* the setCapabilityValue() calls that reject in one update
FailChoices == {{}, {"measure_temperature"}, {"hjm_mode"}}

\* onInit() up to its first await: the poll interval is started, the socket
\* client is created and its connect() is called (connect() of a client that
\* is not destroyed)
onInit ==
  /\ devPhase = "new"
  /\ devPhase' = "connectSocket"
  /\ pollInterval' = POLL_INTERVAL_MS
  /\ pollLive' = TRUE
  /\ socketClient' = TRUE
  /\ devStep' = [NoDevStep EXCEPT !.act = "onInit"]
  /\ connectsCaller' = connectsCaller + 1
  /\ Commit(ChanState("connect"))
  /\ UNCHANGED <<uninited, available, caps, ops, settings, logins,
                 connectsTimer, sessVars, statVars>>

\* onInit() after connectSocket() has settled (a rejection is caught and
\* logged): the initial pollStatus() is called, the last call onInit() makes
onInitConnected(o) ==
  /\ devPhase = "connectSocket"
  /\ connectsCaller = 0
  /\ FreeOp(o)
  /\ devPhase' = "started"
  /\ ops' = [ops EXCEPT ![o] = [IdleOp EXCEPT !.kind = "poll", !.pc = "fetch"]]
  /\ devStep' = [NoDevStep EXCEPT !.act = "onInitConnected"]
  /\ UNCHANGED <<uninited, pollInterval, pollLive, socketClient, available, caps,
                 settings, logins, chanVars, sessVars, statVars>>

\* the callback of the poll interval: pollStatus() up to its await
pollFire(o) ==
  /\ pollLive
  /\ FreeOp(o)
  /\ ops' = [ops EXCEPT ![o] = [IdleOp EXCEPT !.kind = "poll", !.pc = "fetch"]]
  /\ devStep' = [NoDevStep EXCEPT !.act = "pollFire"]
  /\ UNCHANGED <<devPhase, uninited, pollInterval, pollLive, socketClient, available,
                 caps, settings, logins, chanVars, sessVars, statVars>>

\* pollStatus() whose catch block lets a rejection of setUnavailable() through
pollFetched_RethrowsRejection(o, ok, status, availOk) ==
  /\ ops[o].kind = "poll" /\ ops[o].pc = "fetch"
  /\ IF ok
     THEN /\ ops' = [ops EXCEPT ![o].pc = "update", ![o].status = status,
                                ![o].prevTemp = caps["measure_temperature"],
                                ![o].prevMode = caps["hjm_mode"]]
          /\ devStep' = [NoDevStep EXCEPT !.act = "pollFetched"]
          /\ UNCHANGED available
     ELSE /\ ops' = [ops EXCEPT ![o] = IdleOp]
          /\ available' = IF availOk THEN FALSE ELSE available
          /\ devStep' = [NoDevStep EXCEPT !.act = "pollStatus",
                                          !.called = {"setUnavailable"},
                                          !.threw = ~availOk,
                                          !.failed = IF availOk THEN {} ELSE {"setUnavailable"}]
  /\ UNCHANGED <<devPhase, uninited, pollInterval, pollLive, socketClient, caps,
                 settings, logins, chanVars, sessVars, statVars>>

\* pollStatus(): getNodeStatus() settles. A status enters updateCapabilities(),
\* which reads the two previous values; a rejection is caught, logged, and
\* setUnavailable('Connection lost') is called (availOk: that call resolves;
\* its rejection is swallowed)
pollFetched(o, ok, status, availOk) ==
  /\ ops[o].kind = "poll" /\ ops[o].pc = "fetch"
  /\ IF ok
     THEN /\ ops' = [ops EXCEPT ![o].pc = "update", ![o].status = status,
                                ![o].prevTemp = caps["measure_temperature"],
                                ![o].prevMode = caps["hjm_mode"]]
          /\ devStep' = [NoDevStep EXCEPT !.act = "pollFetched"]
          /\ UNCHANGED available
     ELSE /\ ops' = [ops EXCEPT ![o] = IdleOp]
          /\ available' = IF availOk THEN FALSE ELSE available
          /\ devStep' = [NoDevStep EXCEPT !.act = "pollStatus",
                                          !.called = {"setUnavailable"},
                                          !.failed = IF availOk THEN {} ELSE {"setUnavailable"}]
  /\ UNCHANGED <<devPhase, uninited, pollInterval, pollLive, socketClient, caps,
                 settings, logins, chanVars, sessVars, statVars>>

\* the rest of updateCapabilities() and of pollStatus(): after a poll, a
\* device that is unavailable is set available; when that call rejects
\* (availOk false) the catch block logs and calls setUnavailable
updateFinish(o, failing, availOk) ==
  /\ ops[o].pc = "update"
  /\ LET u == updateCapabilities(caps, ops[o].status, ops[o].prevTemp,
                                 ops[o].prevMode, failing)
     IN /\ caps' = u.caps
        /\ available' = IF ops[o].kind = "poll" /\ ~available THEN availOk ELSE available
        /\ devStep' = [NoDevStep EXCEPT
             !.act = IF ops[o].kind = "poll" THEN "pollStatus" ELSE "handleSocketUpdate",
             !.fired = u.fired,
             !.called = IF ops[o].kind = "poll" /\ ~available
                        THEN (IF availOk THEN {"setAvailable"}
                                         ELSE {"setAvailable", "setUnavailable"})
                        ELSE {},
             !.failed = {cap \in failing : ops[o].status[CapField(cap)] # Undefined}
                        \cup (IF ops[o].kind = "poll" /\ ~available /\ ~availOk
                              THEN {"setAvailable"} ELSE {})]
  /\ ops' = [ops EXCEPT ![o] = IdleOp]
  /\ UNCHANGED <<devPhase, uninited, pollInterval, pollLive, socketClient,
                 settings, logins, chanVars, sessVars, statVars>>

\* an 'update' event of transport s reaches the listener connectSocket()
\* registered: handleSocketUpdate() finds the status of its node (NoStatus:
\* none) and enters updateCapabilities()
handleSocketUpdate(s, o, status) ==
  /\ socks[s].status = "connected" /\ socks[s].listeners
  /\ devPhase # "new"
  /\ Commit(emit([ChanState("onUpdate") EXCEPT !.sock = s], "update"))
  /\ IF status = NoStatus
     THEN UNCHANGED ops
     ELSE /\ FreeOp(o)
          /\ ops' = [ops EXCEPT ![o] = [IdleOp EXCEPT
                       !.kind = "push", !.pc = "update", !.status = status,
                       !.prevTemp = caps["measure_temperature"],
                       !.prevMode = caps["hjm_mode"]]]
  /\ devStep' = [NoDevStep EXCEPT !.act = "socketUpdate"]
  /\ UNCHANGED <<devPhase, uninited, pollInterval, pollLive, socketClient, available,
                 caps, settings, logins, connectsCaller, connectsTimer,
                 sessVars, statVars>>

\* a flow action that also writes the capability value
flowAction_SetsValue(cap, value, ok) ==
  /\ devPhase # "new"
  /\ caps' = [caps EXCEPT ![cap] = value]
  /\ devStep' = [NoDevStep EXCEPT
       !.act = "flowAction",
       !.posted = <<CapField(cap), value>>,
       !.threw = ~ok]
  /\ UNCHANGED <<devPhase, uninited, pollInterval, pollLive, socketClient, available,
                 ops, settings, logins, chanVars, sessVars, statVars>>

\* the run listeners of the set_temperature and set_mode action cards:
\* triggerCapabilityListener() runs the capability listener of the device,
\* which calls setNodeStatus() with the one field (ok: the call resolves)
flowAction(cap, value, ok) ==
  /\ devPhase # "new"
  /\ devStep' = [NoDevStep EXCEPT
       !.act = "flowAction",
       !.posted = <<CapField(cap), value>>,
       !.threw = ~ok]
  /\ UNCHANGED <<devPhase, uninited, pollInterval, pollLive, socketClient, available,
                 caps, ops, settings, logins, chanVars, sessVars, statVars>>

\* onUninit() that leaves the poll interval running
onUninit_KeepsPolling(name) ==
  /\ devPhase # "new"
  /\ uninited' = TRUE
  /\ socketClient' = FALSE
  /\ devStep' = [NoDevStep EXCEPT !.act = name]
  /\ IF socketClient
     THEN Commit(closeSocket(clearReconnectTimer(stopPing(
               [ChanState("disconnect") EXCEPT !.destroyed = TRUE]))))
     ELSE UNCHANGED <<destroyed, socket, socks, pingTimer, pingLive, reconnectTimer,
                      reconnectLive, reconnectAttempts, sinceOpen, step>>
  /\ UNCHANGED <<devPhase, pollInterval, pollLive, available, caps, ops, settings,
                 logins, connectsCaller, connectsTimer, sessVars, statVars>>

\* onUninit(), and onDeleted() which only calls it: the poll interval is
\* cleared, and a socket client that is held is disconnected (disconnect()
\* of the client) and dropped
onUninit(name) ==
  /\ devPhase # "new"
  /\ uninited' = TRUE
  /\ pollLive' = IF pollInterval # 0 THEN FALSE ELSE pollLive
  /\ socketClient' = FALSE
  /\ devStep' = [NoDevStep EXCEPT !.act = name]
  /\ IF socketClient
     THEN Commit(closeSocket(clearReconnectTimer(stopPing(
               [ChanState("disconnect") EXCEPT !.destroyed = TRUE]))))
     ELSE UNCHANGED <<destroyed, socket, socks, pingTimer, pingLive, reconnectTimer,
                      reconnectLive, reconnectAttempts, sinceOpen, step>>
  /\ UNCHANGED <<devPhase, pollInterval, available, caps, ops, settings,
                 logins, connectsCaller, connectsTimer, sessVars, statVars>>

\* no login handler runs for a caller
NoLogin == [pc |-> "none", cred |-> 0]

\* the 'login' handler of onPair() up to its await: api.authenticate() with
\* the pair entered, which is authenticate() of the token manager
login(t, cred) ==
  /\ FreeSlot(t)
  /\ Len(fetches) < MaxFetches
  /\ LET m == fetchToken([SessState EXCEPT !.credentials = cred], "authenticate")
     IN /\ CommitSess(m)
        /\ tasks' = [tasks EXCEPT ![t] =
             [IdleTask EXCEPT !.op = "authenticate", !.pc = "awaitFetch",
                              !.awaiting = Len(m.fetches), !.issued = TRUE]]
  /\ logins' = [logins EXCEPT ![t] = [pc |-> "pending", cred |-> cred]]
  /\ UNCHANGED <<devPhase, uninited, pollInterval, pollLive, socketClient, available,
                 caps, ops, devStep, settings, now, chanVars, statVars>>

\* a login handler that stores the pair whatever authenticate() did
loginSettled_StoresAlways(t) ==
  /\ logins[t].pc = "pending"
  /\ tasks[t].pc = "done"
  /\ settings' = logins[t].cred
  /\ logins' = [logins EXCEPT ![t].pc =
                  IF tasks[t].result.kind = "token" THEN "stored" ELSE "threw"]
  /\ UNCHANGED <<devPhase, uninited, pollInterval, pollLive, socketClient, available,
                 caps, ops, devStep, chanVars, sessVars, statVars>>

\* the 'login' handler after api.authenticate() has settled: resolved, the
\* pair is written to the settings and the handler returns true; rejected,
\* the handler throws an Error with the message of the rejection
loginSettled(t) ==
  /\ logins[t].pc = "pending"
  /\ tasks[t].pc = "done"
  /\ IF tasks[t].result.kind = "token"
     THEN /\ settings' = logins[t].cred
          /\ logins' = [logins EXCEPT ![t].pc = "stored"]
     ELSE /\ logins' = [logins EXCEPT ![t].pc = "threw"]
          /\ UNCHANGED settings
  /\ UNCHANGED <<devPhase, uninited, pollInterval, pollLive, socketClient, available,
                 caps, ops, devStep, chanVars, sessVars, statVars>>

InitDevice ==
  /\ devPhase = "new"
  /\ uninited = FALSE
  /\ pollInterval = 0
  /\ pollLive = FALSE
  /\ socketClient = FALSE
  /\ available = TRUE
  /\ caps = [cap \in Capabilities |-> Null]
  /\ ops = [o \in OpIds |-> IdleOp]
  /\ devStep = NoDevStep
  /\ settings = 0
  /\ logins = [t \in TaskIds |-> NoLogin]

\* the status a healthy node reports
UsualStatus == Status(Num(2000), Num(2100), Auto)

\* the life of one device next to its realtime channel: Homey calls onInit,
\* later onUninit and onDeleted; the device calls connect() once; polls
\* fetch the usual status or fail, and the availability calls may reject
NextDevice ==
  \/ onInit
  \/ \E o \in OpIds : onInitConnected(o)
  \/ \E o \in OpIds : pollFire(o)
  \/ \E o \in OpIds, ok \in BOOLEAN, availOk \in BOOLEAN :
       pollFetched(o, ok, UsualStatus, availOk)
  \/ \E o \in OpIds, availOk \in BOOLEAN : updateFinish(o, {}, availOk)
  \/ \E name \in {"onUninit", "onDeleted"} : onUninit(name)
  \/ \E origin \in {"caller", "timer"}, ok \in BOOLEAN : connectResume(origin, ok)
  \/ \E s \in SocketIds : onConnect(s)
  \/ \E s \in SocketIds : onDisconnect(s)
  \/ \E s \in SocketIds : onConnectError(s)
  \/ \E t \in pingLive : pingFire(t)
  \/ \E t \in reconnectLive : reconnectFire(t)

\* pairing: logins with one pair or another, and the answers of the token
\* endpoint
NextPair ==
  \/ \E t \in TaskIds, cred \in CredIds : FreshCred(cred) /\ login(t, cred)
  \/ \E t \in TaskIds : loginSettled(t)
  \/ \E f \in 1..MaxFetches, outcome \in TokenOutcomes \cup {"nocreds"},
        e \in ExpiresInChoices : fetchSettle(f, outcome, e)

\* the capabilities of a device in use: polls that fetch a status, socket
\* updates and flow actions, with setCapabilityValue() calls that reject
NextCaps ==
  \/ onInit
  \/ \E o \in OpIds : onInitConnected(o)
  \/ \E o \in OpIds : pollFire(o)
  \/ \E o \in OpIds, status \in DevStatusChoices : pollFetched(o, TRUE, status, TRUE)
  \/ \E o \in OpIds, failing \in FailChoices : updateFinish(o, failing, TRUE)
  \/ \E s \in SocketIds, o \in OpIds, status \in DevStatusChoices \cup {NoStatus} :
       handleSocketUpdate(s, o, status)
  \/ \E ok \in BOOLEAN : flowAction("target_temperature", Num(2350), ok)
  \/ \E ok \in BOOLEAN : flowAction("hjm_mode", Manual, ok)
  \/ \E ok \in BOOLEAN : connectResume("caller", ok)
  \/ \E s \in SocketIds : onConnect(s)

(* ================================================================== *)
(* Specifications                                                      *)
(* ================================================================== *)
Init == InitChannel /\ InitSession /\ InitStatus /\ InitDevice

vars == <<chanVars, sessVars, statVars, devVars>>

SpecChannel == Init /\ [][NextChannel]_vars

\* the channel left to itself: the owner calls connect() on an idle channel
\* only (no transport, no connect() in flight, no reconnection under way),
\* as the device does once at start-up
NextChannelLive ==
  \/ (socket = 0 /\ reconnectTimer = 0 /\ connectsCaller = 0 /\ connectsTimer = 0)
       /\ connect
  \/ \E origin \in {"caller", "timer"}, ok \in BOOLEAN : connectResume(origin, ok)
  \/ \E s \in SocketIds : onConnect(s)
  \/ \E s \in SocketIds : onUpdate(s)
  \/ \E s \in SocketIds : onDisconnect(s)
  \/ \E s \in SocketIds : onConnectError(s)
  \/ disconnect
  \/ \E t \in pingLive : pingFire(t)
  \/ \E t \in reconnectLive : reconnectFire(t)

\* the event loop runs every timeout that stays pending, and the token fetch
\* a reconnecting connect() waits for settles
SpecChannelLive ==
  /\ Init /\ [][NextChannelLive]_vars
  /\ WF_vars(\E t \in reconnectLive : reconnectFire(t))
  /\ WF_vars(\E ok \in BOOLEAN : connectResume("timer", ok))

SpecSession == Init /\ [][NextSession]_vars

SpecApi == Init /\ [][NextApi]_vars

SpecStatus == Init /\ [][NextStatus]_vars

SpecDevice == Init /\ [][NextDevice]_vars

SpecCaps == Init /\ [][NextCaps]_vars

SpecPair == Init /\ [][NextPair]_vars

(* ================================================================== *)
(* Properties of the realtime channel (checked under SpecChannel)      *)
(* ================================================================== *)
Range(f) == {f[i] : i \in DOMAIN f}

NoConnectPending == connectsCaller = 0 /\ connectsTimer = 0

\* C3: if disconnect() is called while a connect() is suspended on the token
\* fetch, then once the fetch has resolved no transport has been opened by it
\* (none exists that was created on a destroyed client, with or without
\* listeners) and neither a heartbeat nor a reconnect timer is active.
C3_NoOpenAfterTeardown ==
  /\ \A s \in SocketIds : socks[s].status # "free" => ~socks[s].bornDestroyed
  /\ (destroyed /\ NoConnectPending) => (pingLive = {} /\ reconnectLive = {})

\* C4: once disconnect() has been called the client stays destroyed; a later
\* connect() neither suspends on a token fetch nor creates a transport, no
\* reconnect timer is pending or fires, and no handler schedules a reconnection.
C4_DestroyedIsTerminal ==
  [][destroyed =>
       /\ destroyed'
       /\ reconnectLive' = {}
       /\ step'.act # "reconnectFire"
       /\ ~step'.scheduled
       /\ step'.act = "connect" =>
            /\ connectsCaller' = connectsCaller
            /\ socks' = socks
            /\ socket' = socket]_vars

\* C4 witness: a connect() made on a destroyed client that had scheduled reconnections
C4_Witness == destroyed /\ step.act = "connect" /\ reconnectAttempts > 0

\* C7: when MAX_RECONNECT_ATTEMPTS reconnections have been scheduled since the
\* last connect acknowledgement, a transport disconnect or connect error
\* schedules no timer and (the client being live) emits max_reconnect_reached;
\* no step schedules a timer in that situation.
C7_CapStopsReconnect ==
  [][sinceOpen >= MAX_RECONNECT_ATTEMPTS =>
       /\ ~step'.scheduled
       /\ reconnectLive' \subseteq reconnectLive
       /\ (step'.act \in {"onDisconnect", "onConnectError"} /\ ~destroyed) =>
            step'.emitted[Len(step'.emitted)] = "max_reconnect_reached"]_vars

\* C7 witness: the cap was reached and a transport event was answered with max_reconnect_reached
C7_Witness ==
  /\ sinceOpen = MAX_RECONNECT_ATTEMPTS
  /\ step.act \in {"onDisconnect", "onConnectError"}
  /\ "max_reconnect_reached" \in Range(step.emitted)
  /\ ~step.scheduled

BackoffTable ==
  <<5000, 10000, 20000, 40000, 60000, 60000, 60000, 60000, 60000, 60000>>

\* C8: the N-th reconnection scheduled since the last connect acknowledgement
\* is delayed by 5000, 10000, 20000, 40000, 60000, 60000, ... ms, never more
\* than 60000 ms.
C8_BackoffDelays ==
  step.scheduled =>
    /\ sinceOpen \in 1..Len(BackoffTable)
    /\ step.delay = BackoffTable[sinceOpen]
    /\ step.delay <= 60000

\* C8 witness: the fifth reconnection in a row is scheduled, at the cap
C8_Witness == step.scheduled /\ sinceOpen = 5 /\ step.delay = 60000

\* C9: a heartbeat timer is live only while the current transport is
\* connected, never on a destroyed client, and a destroyed client sends no
\* keepalive.
C9_HeartbeatOnlyWhileOpen ==
  /\ destroyed => pingLive = {}
  /\ destroyed => "ping" \notin Range(step.sent)
  /\ pingLive # {} => (socket # 0 /\ socks[socket].status = "connected")

\* C10: at most one heartbeat timer and at most one reconnect timer are
\* pending in every reachable state.
C10_AtMostOneTimerEach ==
  /\ Cardinality(pingLive) <= 1
  /\ Cardinality(reconnectLive) <= 1

\* C10 witness: a transport reported a connect error and then a disconnect,
\* and the second report re-scheduled the reconnection
C10_Witness ==
  /\ step.act = "onDisconnect" /\ step.was = "errored"
  /\ step.scheduled
  /\ Cardinality(reconnectLive) = 1

(* ================================================================== *)
(* Properties of the session manager (SpecSession) and of the REST     *)
(* client (SpecApi)                                                    *)
(* ================================================================== *)
FetchIds == 1..Len(fetches)

\* token requests on the wire
Outstanding == {f \in FetchIds : fetches[f].state = "pending" /\ fetches[f].net}

\* what the promise of fetch f settled with
FetchOutcome(f) ==
  IF fetches[f].state = "ok" THEN ResToken(f) ELSE ResError(fetches[f].err, f)

\* C1: a refresh() called while a refresh is in flight issues no token request
\* and settles with the outcome of the in-flight one; all callers sharing one
\* refresh have the identical outcome (the same token or the same failure),
\* and the refreshes in flight account for at most one request on the wire.
C1_RefreshDedup ==
  /\ \A t \in TaskIds :
       (tasks[t].op = "refresh" /\ tasks[t].joined # 0) =>
          /\ ~tasks[t].issued
          /\ tasks[t].awaiting = tasks[t].joined
          /\ tasks[t].pc = "done" => tasks[t].result = FetchOutcome(tasks[t].joined)
  /\ \A t, u \in TaskIds :
       (/\ tasks[t].op = "refresh" /\ tasks[u].op = "refresh"
        /\ tasks[t].issued /\ tasks[u].joined = tasks[t].awaiting
        /\ tasks[t].pc = "done" /\ tasks[u].pc = "done")
       => tasks[u].result = tasks[t].result
  /\ Cardinality({f \in Outstanding : fetches[f].by = "refresh"}) <= 1

\* C1 witness: one refresh() issued the request, another one joined it while
\* it was in flight, and both settled with the token of that request
C1_Witness ==
  \E t, u \in TaskIds :
    /\ t # u
    /\ tasks[t].op = "refresh" /\ tasks[t].issued /\ tasks[t].pc = "done"
    /\ tasks[t].result.kind = "token"
    /\ fetches[tasks[t].awaiting].net
    /\ tasks[u].op = "refresh" /\ tasks[u].joined = tasks[t].awaiting
    /\ tasks[u].pc = "done" /\ tasks[u].result = tasks[t].result

\* C2: a REST call sends its request at most twice: a 401 answering the
\* replay is not recovered again (no second wait for a refresh).
C2_ReplayAtMostOnce ==
  \A t \in TaskIds :
    tasks[t].op = "rest" =>
      /\ tasks[t].sends <= 2
      /\ tasks[t].pc = "await401" => tasks[t].sends = 1
      /\ (tasks[t].pc = "done" /\ tasks[t].sends = 2 /\ tasks[t].status = "401")
           => tasks[t].result.err = "InvalidCredentials"

\* C5: at most one token-endpoint request is outstanding at any moment (for
\* one and the same credential pair).
C5_AtMostOneTokenRequest ==
  \A c \in CredIds : Cardinality({f \in Outstanding : fetches[f].cred = c}) <= 1

\* C6: REST requests answered with 401 while the refresh triggered by a 401
\* is in flight issue no token request of their own, all wait for that one
\* refresh, and every replay carries the token that refresh produced.
C6_Shared401Refresh ==
  /\ \A t \in TaskIds :
       tasks[t].pc = "await401" =>
          /\ apiRefreshPromise # 0
          /\ tasks[t].awaiting = apiRefreshPromise
          /\ fetches[tasks[t].awaiting].state = "pending"
  /\ \A t \in TaskIds :
       (tasks[t].op = "rest" /\ tasks[t].status = "401" /\ tasks[t].joined # 0) =>
          /\ ~tasks[t].issued
          /\ tasks[t].awaiting = tasks[t].joined
  /\ \A t \in TaskIds :
       (tasks[t].op = "rest" /\ tasks[t].pc = "sent" /\ tasks[t].sends >= 2) =>
          /\ tasks[t].token = tasks[t].awaiting
          /\ fetches[tasks[t].awaiting].state = "ok"
  /\ Cardinality({f \in Outstanding : fetches[f].by = "refresh"}) <= 1

\* C6 witness: two REST calls got 401, the second while the refresh of the
\* first was in flight, and both replays went out with the token of that refresh
C6_Witness ==
  \E t, u \in TaskIds :
    /\ t # u
    /\ tasks[t].op = "rest" /\ tasks[u].op = "rest"
    /\ tasks[t].pc = "sent" /\ tasks[u].pc = "sent"
    /\ tasks[t].sends = 2 /\ tasks[u].sends = 2
    /\ tasks[t].issued /\ tasks[u].joined = tasks[t].awaiting
    /\ tasks[t].token = tasks[u].token /\ tasks[t].token = tasks[t].awaiting

\* C11: a settled token request never stays behind as the in-flight marker:
\* the marker, and every promise a caller is suspended on, is an unsettled
\* fetch, and a refresh() that finds no marker starts a fetch of its own.
C11_MarkerClearedOnSettle ==
  /\ refreshPromise # 0 =>
       (refreshPromise \in FetchIds /\ fetches[refreshPromise].state = "pending")
  /\ \A t \in TaskIds :
       tasks[t].pc = "awaitFetch" => fetches[tasks[t].awaiting].state = "pending"
  /\ \A t \in TaskIds :
       (tasks[t].op = "refresh" /\ tasks[t].joined = 0) => tasks[t].issued

\* C11 witness: a refresh() issued a new token request after the request of
\* an earlier refresh had failed
C11_Witness ==
  \E t \in TaskIds :
    /\ tasks[t].op = "refresh" /\ tasks[t].issued
    /\ fetches[tasks[t].awaiting].net
    /\ \E g \in FetchIds :
         /\ g < tasks[t].awaiting
         /\ fetches[g].by = "refresh" /\ fetches[g].net
         /\ fetches[g].state = "fail"

\* C14: isAuthenticated() is true iff a token is cached and the time is
\* strictly before issue time + expires_in seconds - 5 minutes; a token
\* issued with a lifetime of at most 5 minutes never reports true.
C14_IsAuthenticated ==
  /\ isAuthenticated(SessState, now) <=>
       /\ accessToken # 0
       /\ now < fetches[accessToken].at
                  + fetches[accessToken].expiresIn * 1000 - 300000
  /\ (accessToken # 0 /\ fetches[accessToken].expiresIn <= 300) =>
       ~isAuthenticated(SessState, now)

\* C14 witness: a cached token that was valid when issued reports false
\* after time has passed
C14_Witness ==
  /\ accessToken # 0
  /\ fetches[accessToken].expiresIn = 600
  /\ now > fetches[accessToken].at
  /\ ~isAuthenticated(SessState, now)

\* C15: getToken() returns the cached token, with no token request, iff a
\* token is cached and now < expires_at; otherwise it returns the promise of
\* refresh() (a new request when none is in flight, else the one in flight)
\* and settles with that refresh's outcome.
C15_GetTokenCachedOrRefresh ==
  [][\A t \in TaskIds :
       /\ (tasks[t].op = "none" /\ tasks'[t].op = "getToken") =>
            IF accessToken # 0 /\ now < tokenExpiresAt
            THEN /\ tasks'[t].pc = "done"
                 /\ tasks'[t].result = ResToken(accessToken)
                 /\ fetches' = fetches
                 /\ refreshPromise' = refreshPromise
            ELSE /\ tasks'[t].pc = "awaitFetch"
                 /\ tasks'[t].awaiting = refreshPromise'
                 /\ IF refreshPromise = 0
                    THEN /\ Len(fetches') = Len(fetches) + 1
                         /\ refreshPromise' = Len(fetches')
                         /\ fetches'[refreshPromise'].by = "refresh"
                    ELSE /\ fetches' = fetches
                         /\ refreshPromise' = refreshPromise
       /\ (tasks[t].op = "getToken" /\ tasks[t].pc = "awaitFetch"
             /\ tasks'[t].pc = "done") =>
            /\ fetches'[tasks[t].awaiting].state # "pending"
            /\ tasks'[t].result =
                 IF fetches'[tasks[t].awaiting].state = "ok"
                 THEN ResToken(tasks[t].awaiting)
                 ELSE ResError(fetches'[tasks[t].awaiting].err, tasks[t].awaiting)
    ]_vars

\* C15 witness: one getToken() returned the cached token, and another one,
\* called after a later token had been issued, returned the token of the
\* refresh it started
C15_Witness ==
  \E t, u \in TaskIds :
    /\ tasks[t].op = "getToken" /\ tasks[t].pc = "done" /\ tasks[t].awaiting = 0
    /\ tasks[t].result.kind = "token"
    /\ tasks[u].op = "getToken" /\ tasks[u].pc = "done" /\ tasks[u].issued
    /\ tasks[u].result = ResToken(tasks[u].awaiting)
    /\ fetches[tasks[t].result.token].expiresIn = 600
    /\ fetches[tasks[u].awaiting].at > fetches[tasks[t].result.token].at

\* C16: a step that clears the cached token without settling a token request
\* (invalidate()) clears the expiry too and leaves the credentials, the
\* in-flight marker, the callers waiting on it and the requests untouched.
C16_InvalidateFrame ==
  [][(accessToken # 0 /\ accessToken' = 0 /\ fetches' = fetches) =>
       /\ tokenExpiresAt' = 0
       /\ UNCHANGED <<credentials, refreshPromise, apiRefreshPromise, tasks, now>>
    ]_vars

\* C16 witness: the token of a later request was invalidated while an
\* earlier refresh is still in flight with a caller waiting on it
C16_Witness ==
  \E f, g \in FetchIds :
    /\ f < g
    /\ refreshPromise = f /\ fetches[f].state = "pending" /\ fetches[f].net
    /\ fetches[g].state = "ok"
    /\ \A h \in FetchIds : fetches[h].state # "fail"
    /\ accessToken = 0 /\ tokenExpiresAt = 0 /\ credentials # 0
    /\ \E t \in TaskIds : tasks[t].pc = "awaitFetch" /\ tasks[t].awaiting = f

\* C17: when a token request of authenticate() or refresh() fails (401,
\* connection failure or anything else), no token and no expiry is cached
\* right after the failure.
C17_FailureClearsToken ==
  [][\A f \in FetchIds :
       (fetches[f].net /\ fetches[f].state = "pending"
          /\ fetches'[f].state = "fail") =>
         (accessToken' = 0 /\ tokenExpiresAt' = 0)
    ]_vars

\* C17 witness: failures of each kind, of authenticate() and of refresh(),
\* one of which cleared a token that was still valid
C17_Witness ==
  /\ accessToken = 0
  /\ \E f, g \in FetchIds :
       /\ fetches[f].by = "authenticate" /\ fetches[g].by = "refresh"
       /\ fetches[f].state = "fail" /\ fetches[g].state = "fail"
       /\ fetches[f].net /\ fetches[g].net
       /\ fetches[f].err # fetches[g].err
       /\ fetches[f].cleared

\* C18: without stored credentials no token request is issued and the session
\* state stays as constructed; a refresh() made without credentials fails
\* with NoCredentials, and its promise does not stay behind as the marker.
C18_NoCredentials ==
  /\ credentials = 0 =>
       /\ \A f \in FetchIds : ~fetches[f].net
       /\ accessToken = 0 /\ tokenExpiresAt = 0
  /\ \A f \in FetchIds :
       ~fetches[f].net =>
         /\ fetches[f].cred = 0 /\ fetches[f].by = "refresh"
         /\ fetches[f].state # "ok"
         /\ fetches[f].state = "fail" =>
              /\ fetches[f].err = "NoCredentials"
              /\ refreshPromise # f
              /\ ~fetches[f].cleared
  /\ \A t \in TaskIds :
       (tasks[t].op \in {"refresh", "getToken"} /\ tasks[t].pc = "done"
          /\ tasks[t].awaiting # 0 /\ ~fetches[tasks[t].awaiting].net) =>
         tasks[t].result = ResError("NoCredentials", tasks[t].awaiting)

\* C18 witness: a refresh() and a getToken() both failed with NoCredentials
\* on a session that has no credentials, and no marker is left
C18_Witness ==
  /\ credentials = 0 /\ refreshPromise = 0
  /\ \E t, u \in TaskIds :
       /\ tasks[t].op = "refresh" /\ tasks[u].op = "getToken"
       /\ tasks[t].pc = "done" /\ tasks[u].pc = "done"
       /\ tasks[t].result.err = "NoCredentials"
       /\ tasks[u].result.err = "NoCredentials"
       /\ tasks[t].awaiting # tasks[u].awaiting

\* C12: a 401 that finds no recovery in flight invalidates the token and
\* waits on a token request that is still unsettled (at most one new one); the
\* waiting call does nothing until that request settles; in the step in
\* which it settles successfully the request is replayed once, carrying the
\* token of that request and not the one it was sent with; a replay answered
\* 200 completes the call with the response and no error.
C12_RecoverySequence ==
  [][\A t \in TaskIds :
       /\ (tasks[t].pc = "sent" /\ tasks'[t].pc = "await401") =>
            /\ tasks'[t].sends = tasks[t].sends
            /\ fetches'[tasks'[t].awaiting].state = "pending"
            /\ IF apiRefreshPromise = 0
               THEN /\ accessToken' = 0 /\ tokenExpiresAt' = 0
                    /\ Len(fetches') <= Len(fetches) + 1
                    /\ tasks'[t].awaiting = refreshPromise'
               ELSE /\ tasks'[t].awaiting = apiRefreshPromise
                    /\ UNCHANGED <<accessToken, tokenExpiresAt, fetches,
                                   refreshPromise, apiRefreshPromise>>
       /\ (tasks[t].pc = "await401" /\ tasks'[t].pc = "await401") =>
            tasks'[t] = tasks[t]
       /\ (tasks[t].pc = "await401" /\ tasks'[t].pc = "sent") =>
            /\ fetches[tasks[t].awaiting].state = "pending"
            /\ fetches'[tasks[t].awaiting].state = "ok"
            /\ tasks'[t].token = tasks[t].awaiting
            /\ tasks'[t].token # tasks[t].token
            /\ tasks'[t].sends = tasks[t].sends + 1
            /\ accessToken' = tasks[t].awaiting
            /\ Len(fetches') = Len(fetches)
       /\ (tasks[t].op = "rest" /\ tasks[t].pc = "sent" /\ tasks'[t].pc = "done"
             /\ tasks'[t].status = "200") =>
            /\ tasks'[t].result = ResData
            /\ tasks'[t].sends = tasks[t].sends
            /\ UNCHANGED <<accessToken, tokenExpiresAt, fetches,
                           refreshPromise, apiRefreshPromise>>
    ]_vars

\* C12 witness: a REST call answered 401 started the token request itself,
\* was replayed once with the token of that request and completed with the
\* response of the replay
C12_Witness ==
  \E t \in TaskIds :
    /\ tasks[t].op = "rest" /\ tasks[t].pc = "done"
    /\ tasks[t].sends = 2 /\ tasks[t].status = "200"
    /\ tasks[t].result = ResData
    /\ tasks[t].issued /\ tasks[t].joined = 0
    /\ tasks[t].token = tasks[t].awaiting
    /\ fetches[tasks[t].awaiting].state = "ok"

\* C13: when the token request awaited after a 401 fails, every call waiting
\* on it ends in that step with the failure of the request, none is replayed,
\* and no token is cached.
C13_FailedRecovery ==
  [][\A t \in TaskIds :
       (tasks[t].pc = "await401" /\ fetches[tasks[t].awaiting].state = "pending"
          /\ fetches'[tasks[t].awaiting].state = "fail") =>
         /\ tasks'[t].pc = "done"
         /\ tasks'[t].sends = tasks[t].sends
         /\ tasks'[t].result.kind = "err"
         /\ tasks'[t].result.from = tasks[t].awaiting
         /\ tasks'[t].result.err = fetches'[tasks[t].awaiting].err
         /\ accessToken' = 0 /\ tokenExpiresAt' = 0
         /\ \A u \in TaskIds :
              (tasks[u].pc = "await401" /\ tasks[u].awaiting = tasks[t].awaiting)
                => tasks'[u].result = tasks'[t].result
    ]_vars

\* C13 witness: two REST calls answered 401 shared one refresh, the refresh
\* failed, and both ended with its failure after a single send
C13_Witness ==
  \E t, u \in TaskIds :
    /\ t # u
    /\ tasks[t].op = "rest" /\ tasks[u].op = "rest"
    /\ tasks[t].pc = "done" /\ tasks[u].pc = "done"
    /\ tasks[t].status = "401" /\ tasks[u].status = "401"
    /\ tasks[t].sends = 1 /\ tasks[u].sends = 1
    /\ tasks[t].issued /\ tasks[u].joined = tasks[t].awaiting
    /\ tasks[t].result.kind = "err" /\ tasks[u].result = tasks[t].result
    /\ fetches[tasks[t].awaiting].state = "fail"
    /\ accessToken = 0

\* the errors the components build themselves
Taxonomy ==
  {"InvalidCredentials", "NoCredentials", "RateLimited", "Unreachable", "Unexpected"}

\* C19: every failure a caller of authenticate(), getToken(), refresh() or of
\* a REST operation receives is one of InvalidCredentials, NoCredentials,
\* RateLimited, Unreachable, Unexpected.
C19_OnlyTaxonomyErrors ==
  \A t \in TaskIds :
    tasks[t].result.kind = "err" => tasks[t].result.err \in Taxonomy

C21_ConnectNeverRejects ==
  step.act = "connectResume" => ~step.threw

\* C22: the reconnect counter is 0 right after every connect acknowledgement,
\* grows by exactly 1 in every step that schedules a reconnect timer, is
\* changed by no other step, and stays within 0..MAX_RECONNECT_ATTEMPTS.
C22_CounterDiscipline ==
  [][/\ step'.act = "onConnect" => reconnectAttempts' = 0
     /\ step'.scheduled => reconnectAttempts' = reconnectAttempts + 1
     /\ (step'.act # "onConnect" /\ ~step'.scheduled) =>
          reconnectAttempts' = reconnectAttempts
     /\ reconnectAttempts' \in 0..MAX_RECONNECT_ATTEMPTS
     /\ (reconnectTimer' # reconnectTimer /\ reconnectTimer' # 0) => step'.scheduled
    ]_vars

\* C22 witness: a connect acknowledgement reset the counter after
\* reconnections had been scheduled
C22_Witness ==
  /\ step.act = "onConnect" /\ ~destroyed
  /\ reconnectAttempts = 0
  /\ reconnectTimer # 0

\* C23: on every connect acknowledgement of a live channel exactly one
\* connected event is emitted, exactly one dev_data message is sent and
\* exactly one heartbeat timer is running.
C23_OpenSequence ==
  (step.act = "onConnect" /\ ~destroyed) =>
    /\ step.emitted = <<"connected">>
    /\ step.sent = <<"dev_data">>
    /\ ~step.threw
    /\ Cardinality(pingLive) = 1 /\ pingTimer \in pingLive

\* C24: on every transport disconnect or connect error of a live channel no
\* heartbeat timer is left, the first event emitted is disconnected (for a
\* disconnect) or error (for a connect error), and then either a reconnect
\* timer is scheduled or max_reconnect_reached is emitted, never both or
\* neither.
C24_CloseSequence ==
  (step.act \in {"onDisconnect", "onConnectError"} /\ ~destroyed) =>
    /\ pingLive = {} /\ pingTimer = 0
    /\ Len(step.emitted) >= 1
    /\ step.emitted[1] = IF step.act = "onDisconnect" THEN "disconnected" ELSE "error"
    /\ IF step.scheduled
       THEN /\ step.emitted = <<step.emitted[1]>>
            /\ Cardinality(reconnectLive) = 1 /\ reconnectTimer \in reconnectLive
            /\ reconnectAttempts \in 1..MAX_RECONNECT_ATTEMPTS
       ELSE /\ step.emitted = <<step.emitted[1], "max_reconnect_reached">>
            /\ reconnectAttempts = MAX_RECONNECT_ATTEMPTS

\* C25: after every step that schedules a reconnection on a live channel (a
\* transport disconnect in particular) the token fetch of a new connection
\* attempt made by the timer eventually settles, unless the channel is torn
\* down first; when that fetch resolved, the attempt has opened a new
\* transport; and when the current transport acknowledges, it is connected,
\* the counter is 0 and the heartbeat runs.
C25_SelfHeal ==
  /\ (step.scheduled /\ ~destroyed)
       ~> (destroyed \/ (step.act = "connectResume" /\ step.origin = "timer"))
  /\ []((step.act = "connectResume" /\ step.origin = "timer"
           /\ step.emitted = <<>>) =>
          (socket # 0 /\ socks[socket].status = "connecting"
             /\ socks[socket].listeners))
  /\ []((step.act = "onConnect" /\ step.sock = socket /\ ~destroyed) =>
          (socks[socket].status = "connected" /\ reconnectAttempts = 0
             /\ pingTimer \in pingLive))

\* C25 witness: after a transport disconnect the connect() of the reconnect
\* timer opened a new transport
C25_Witness ==
  /\ step.act = "connectResume" /\ step.origin = "timer"
  /\ ~destroyed /\ reconnectAttempts >= 1
  /\ socket # 0 /\ socks[socket].status = "connecting"
  /\ \A s \in SocketIds : s # socket => socks[s].status = "free"

Handlers == {"onConnect", "onUpdate", "onDisconnect", "onConnectError"}

\* C26: the reconnect callback detaches the listeners of the transport in
\* this.socket, disconnects it and clears the handle in the step in which
\* connect() is invoked again; a transport torn down runs no handler (emits
\* no event, starts no timer, schedules nothing) and stays as it is until
\* io() creates a new transport.
C26_StaleTransportTornDown ==
  [][/\ step'.act = "reconnectFire" =>
          /\ socket' = 0
          /\ step'.sock = socket
          /\ socket # 0 => socks'[socket] = FreeSock
          /\ \A s \in SocketIds : s # socket => socks'[s] = socks[s]
          /\ connectsTimer' = connectsTimer + 1
          /\ step'.emitted = <<>> /\ ~step'.scheduled /\ pingLive' = pingLive
     /\ step'.act \in Handlers =>
          (socks[step'.sock].listeners /\ socks[step'.sock].status # "free")
     /\ \A s \in SocketIds :
          socks[s].status = "free" =>
            (socks'[s] = socks[s] \/ step'.act = "connectResume")
    ]_vars

\* C26 witness: the reconnect timer fired and tore down the transport that
\* had been disconnected
C26_Witness ==
  /\ step.act = "reconnectFire"
  /\ step.sock # 0 /\ socks[step.sock] = FreeSock
  /\ socket = 0 /\ connectsTimer = 1

(* ------------------------------------------------------------------ *)
(* Further properties of the session manager (SpecSession)             *)
(* ------------------------------------------------------------------ *)

\* C27: the token and its expiry are consistent in every reachable state:
\* without a token the expiry is 0, and with a token the expiry is the
\* time the fetch that produced the token settled, plus its expires_in,
\* minus the five-minute buffer.
C27_TokenExpiryConsistent ==
  /\ accessToken = 0 => tokenExpiresAt = 0
  /\ accessToken # 0 =>
       /\ accessToken \in FetchIds
       /\ fetches[accessToken].state = "ok"
       /\ tokenExpiresAt = fetches[accessToken].at
                           + fetches[accessToken].expiresIn * 1000
                           - TOKEN_REFRESH_BUFFER_MS

\* C27 witness: the cached token comes from a fetch that succeeded later
\* than an earlier successful fetch, whose token was cleared in between
C27_Witness ==
  /\ accessToken \in FetchIds
  /\ \E g \in FetchIds :
       /\ g < accessToken
       /\ fetches[g].state = "ok"
       /\ fetches[g].at < fetches[accessToken].at
  /\ \E g \in FetchIds : g < accessToken /\ fetches[g].state = "fail"

(* ------------------------------------------------------------------ *)
(* Properties of the node status operations (SpecStatus)               *)
(* ------------------------------------------------------------------ *)
\* the fields setNodeStatus transmits
SentFields == {"stemp", "mtemp", "mode", "active"}

\* the call a step has just completed
LastCall == calls[Len(calls)]

OneDecimal(cs) ==
  /\ Len(cs) >= 3
  /\ DigitRun(cs, 1) = Len(cs) - 2
  /\ cs[Len(cs) - 1] = "."
  /\ IsDigit(cs[Len(cs)])

\* C29: setNodeStatus sends every supplied numeric temperature as a decimal
\* string with exactly one fractional digit that denotes the same value
\* (23 as "23.0", 22.5 as "22.5"), and sends mode and active unchanged.
C29_OneDecimalTemperatures ==
  \A i \in 1..Len(calls) :
    calls[i].op = "set" =>
      /\ \A k \in TempFields :
           calls[i].status[k].type = "number" =>
             /\ calls[i].body[k].type = "string"
             /\ OneDecimal(calls[i].body[k].chars)
             /\ parseFloat(calls[i].body[k]) = calls[i].status[k]
      /\ \A k \in {"mode", "active"} : calls[i].body[k] = calls[i].status[k]

\* C30: a status fetched, written back unchanged and fetched again is equal
\* to the status fetched first (NaN taken as equal to NaN).
C30_RoundTrip ==
  \A i \in 1..(Len(calls) - 2) :
    ( /\ calls[i].op = "get"
      /\ calls[i + 1].op = "set" /\ calls[i + 1].status = calls[i].status
      /\ calls[i + 2].op = "get" )
    => calls[i + 2].status = calls[i].status

\* C30 witness: a round trip over a status with both temperatures, after
\* which the server holds the temperature stemp in other text ("23" for
\* "23.0") than before
C30_Witness ==
  /\ Len(calls) = 3
  /\ calls[1].op = "get" /\ calls[3].op = "get"
  /\ calls[2].op = "set" /\ calls[2].status = calls[1].status
  /\ calls[1].status["stemp"] = Num(2300)
  /\ calls[1].status["mtemp"] = Num(1925)
  /\ calls[3].status = calls[1].status
  /\ remote["stemp"] = Str(<<"2", "3">>)

(* ------------------------------------------------------------------ *)
(* Credentials and overlapping token requests (SpecSession, SpecApi)   *)
(* ------------------------------------------------------------------ *)

\* C33: whenever no token request is outstanding, the cached token was
\* issued for the credential pair that is stored now.
C33_TokenOfStoredCredentials ==
  ((\A f \in FetchIds : fetches[f].state # "pending") /\ accessToken # 0) =>
     fetches[accessToken].cred = credentials

\* C34: a 401 response to a request that carried an older token than the
\* cached one leaves the cached token in place and starts no token request.
C34_Late401KeepsNewerToken ==
  [][ \A t \in TaskIds :
        ( /\ tasks[t].pc = "sent" /\ tasks'[t].pc = "await401"
          /\ accessToken # 0 /\ tasks[t].token # accessToken )
        => (accessToken' = accessToken /\ fetches' = fetches)
    ]_vars

(* ------------------------------------------------------------------ *)
(* Transports and token failures of the realtime channel (SpecChannel) *)
(* ------------------------------------------------------------------ *)
\* transports with listeners attached that are connecting or connected
LiveSocks ==
  {s \in SocketIds : socks[s].listeners /\ socks[s].status \in {"connecting", "connected"}}

\* C35: at most one transport created by the manager is live, and a live
\* transport is the one in this.socket, which disconnect() closes.
C35_AtMostOneLiveTransport ==
  /\ Cardinality(LiveSocks) <= 1
  /\ \A s \in LiveSocks : s = socket

\* C37: a rejected token fetch in a connect() the caller invoked creates no
\* transport, emits nothing and schedules nothing: connect() rejects and the
\* channel is as it was. A rejected token fetch in the connect() of the
\* reconnect callback emits error and goes through scheduleReconnect (which
\* schedules the next attempt unless the channel is destroyed or the cap is
\* reached). No other resumption of connect() emits or schedules.
C37_CallerTokenFailure ==
  [][ step'.act = "connectResume" =>
        /\ (step'.origin = "caller" /\ step'.threw) =>
             /\ step'.emitted = <<>> /\ ~step'.scheduled
             /\ socket' = socket /\ socks' = socks
             /\ reconnectTimer' = reconnectTimer /\ reconnectLive' = reconnectLive
             /\ reconnectAttempts' = reconnectAttempts
             /\ pingTimer' = pingTimer /\ pingLive' = pingLive
        /\ (step'.origin = "timer" /\ socks' = socks) =>
             /\ ~step'.threw
             /\ step'.emitted # <<>> /\ step'.emitted[1] = "error"
             /\ \/ step'.scheduled
                \/ destroyed
                \/ step'.emitted = <<"error", "max_reconnect_reached">>
        /\ (step'.emitted # <<>> \/ step'.scheduled) =>
             (step'.origin = "timer" /\ socks' = socks)
    ]_vars

\* C37 witness: the first connect() of the caller failed on its token fetch
\* and left the channel idle: no transport, no timer, no connect() in flight
C37_Witness ==
  /\ step.act = "connectResume" /\ step.origin = "caller" /\ step.threw
  /\ ~destroyed
  /\ socket = 0 /\ LiveSocks = {}
  /\ reconnectTimer = 0 /\ reconnectLive = {}
  /\ connectsCaller = 0 /\ connectsTimer = 0

(* ------------------------------------------------------------------ *)
(* Stored credentials (SpecSession)                                    *)
(* ------------------------------------------------------------------ *)

\* C36: the stored credentials change only when authenticate() is called,
\* to the pair it was called with, whether or not its request then succeeds;
\* no settlement and no invalidate() clears or restores them, and every
\* token request is made with the pair stored when it starts.
C36_CredentialsOnlyByAuthenticate ==
  [][ /\ credentials' # credentials =>
           /\ credentials' # 0
           /\ Len(fetches') = Len(fetches) + 1
           /\ fetches'[Len(fetches')].by = "authenticate"
      /\ Len(fetches') > Len(fetches) =>
           /\ fetches'[Len(fetches')].cred = credentials'
           /\ fetches'[Len(fetches')].by # "authenticate" => credentials' = credentials
    ]_vars

\* C36 witness: authenticate() with a second pair failed after the first
\* pair had worked; the second pair stayed stored and a later refresh made
\* its request with it
C36_Witness ==
  /\ credentials = 2
  /\ \E f, g, h \in FetchIds :
       /\ f < g /\ g < h
       /\ fetches[f].cred = 1 /\ fetches[f].state = "ok"
       /\ fetches[g].by = "authenticate" /\ fetches[g].cred = 2
       /\ fetches[g].state = "fail" /\ fetches[g].net
       /\ fetches[h].by = "refresh" /\ fetches[h].cred = 2

(* ------------------------------------------------------------------ *)
(* Device, flow cards and pairing                                      *)
(* ------------------------------------------------------------------ *)

\* C31: a set_temperature or set_mode flow action leaves every capability
\* value as it was, and a capability value changes only in the step that
\* finishes updateCapabilities() for a poll or a socket update
C31_FlowActionsLeaveCapabilities ==
  [][ /\ devStep'.act = "flowAction" => caps' = caps
      /\ caps' # caps => devStep'.act \in {"pollStatus", "handleSocketUpdate"} ]_vars

\* a flow action has posted a target temperature that differs from the one
\* the device shows
C31_Witness ==
  /\ devStep.act = "flowAction"
  /\ ~devStep.threw
  /\ devStep.posted = <<"mtemp", Num(2350)>>
  /\ caps["target_temperature"] = Num(2100)

PollFailed(o) ==
  ops[o].kind = "poll" /\ ops[o].pc = "fetch" /\ ops'[o].pc = "idle"

\* a poll whose fetch succeeded completes in this step
PollSucceeded(o) ==
  ops[o].kind = "poll" /\ ops[o].pc = "update" /\ ops'[o].pc = "idle"

C39_TriggersIffChanged ==
  [][ \A o \in OpIds :
        (ops[o].pc = "update" /\ ops'[o].pc = "idle") =>
          /\ "temperature_changed" \in devStep'.fired <=>
                (ops[o].status["stemp"] # Undefined
                   /\ ops[o].status["stemp"] # ops[o].prevTemp)
          /\ "mode_changed" \in devStep'.fired <=>
                (ops[o].status["mode"] # Undefined
                   /\ ops[o].status["mode"] # ops[o].prevMode)
          /\ \A cap \in Capabilities :
                (ops[o].status[CapField(cap)] # Undefined /\ cap \notin devStep'.failed)
                  => caps'[cap] = ops[o].status[CapField(cap)] ]_vars

\* C40: the settings change only in the step of a login handler whose
\* authenticate() resolved, and then to the pair that login was given; a
\* login handler whose authenticate() rejected throws and leaves the
\* settings as they were
C40_SettingsOnlyAfterAuthenticate ==
  [][ /\ settings' # settings =>
           \E t \in TaskIds :
             /\ logins[t].pc = "pending" /\ logins'[t].pc = "stored"
             /\ tasks[t].op = "authenticate" /\ tasks[t].result.kind = "token"
             /\ fetches[tasks[t].result.from].cred = logins[t].cred
             /\ settings' = logins[t].cred
      /\ \A t \in TaskIds :
           (logins[t].pc = "pending" /\ logins'[t].pc # "pending"
              /\ tasks[t].result.kind = "err")
             => (logins'[t].pc = "threw" /\ settings' = settings) ]_vars

\* a login with a second pair has failed and thrown; the settings still hold
\* the pair of the earlier login that succeeded
C40_Witness ==
  \E t \in TaskIds :
    /\ logins[t].pc = "threw"
    /\ settings # 0
    /\ logins[t].cred # settings


====
